---- MODULE Spec2Model ----
(***************************************************************************)
(* MailMonkey: campaign ledger (finalize_or_rebuild.py), history filter,   *)
(* ingestion and selection (BuildMasterCampaignList_v4_MAILZIPFirst.py)    *)
(* and the bin planner (generate_letters.py).                              *)
(*                                                                         *)
(* Text values are sequences of one-character strings so that the          *)
(* normalisation of the dedup key is computed, not assumed.  Identifiers   *)
(* that the ledger only compares for equality or emptiness (template ids,  *)
(* ref codes, its ZIP5) are TLA+ strings, "" being the empty cell; the     *)
(* ZIP5 of ingestion, selection and bin planning is a sequence of digits,  *)
(* so that its parsing and its ZIP3 prefix are computed.  Campaign numbers *)
(* are positive integers in canonical decimal form; a date is a day        *)
(* number, 0 being the empty cell.                                         *)
(***************************************************************************)
EXTENDS Integers, Sequences, FiniteSets, TLC

VARIABLES
    logs,        \* campaign folder -> rows of its executed_campaign_log.csv
    tracker,     \* MasterPropertyCampaignTracker.csv as the dict key -> row
    tally,       \* Zip5_LetterTally.csv as ZIP5 -> Count
    marker,      \* campaign folder -> the marker file exists
    master,      \* campaign folder -> ZIP index of its campaign_master.csv
    today,       \* the day today_mmddyyyy() reports
    rebuilt,     \* a rebuild-all has rewritten the tracker
    lastRun,     \* what the last run of finalize_or_rebuild.py did
    candidates,  \* pick_optimized: the candidate rows
    target,      \* pick_optimized: --target-size
    strict_150,  \* pick_optimized: --strict-150
    seed,        \* pick_optimized: what random.shuffle does in this run
    first_pass,  \* pick_optimized: chosen as the whole-tray pass leaves it
    chosen,      \* pick_optimized: the returned selection
    picked,      \* pick_optimized has returned
    zips,        \* plan_bins_by_order: the ZIP5 of every letter, in print order
    bins,        \* plan_bins_by_order: the returned bins
    planned,     \* plan_bins_by_order has returned
    pages,       \* envelopes: the pages submitted to the canvas, in order
    drawn,       \* envelopes: the pages have been drawn
    lead,        \* passes_prior_rules: the dedup key k
    policy,      \* passes_prior_rules: --prior-exact, --prior-max, --min-gap
                 \* and --campaign-number of the build run
    verdict,     \* passes_prior_rules: the returned value
    filtered,    \* passes_prior_rules has returned
    phase,       \* build: where main() stands
    target_size, \* build: --target-size
    sources,     \* build: the source files read so far, [bucket, rows] each
    seen_keys,   \* build: seen_keys
    all_candidates, \* build: all_candidates
    stats,       \* build: stats
    mandatory,   \* build: args.mandatory, TRUE for a path that exists
    optional,    \* build: args.optional, TRUE for a path that exists
    exit_code,   \* build: the exit status, << >> while the run is under way
    camp_dir,    \* build: the campaign folder was created
    outputs,     \* build: the names of the files written so far
    zip_row,     \* get_zip5_from_row: the source row
    zip_addr,    \* get_zip5_from_row: the address detected in the row
    zip5,        \* get_zip5_from_row: the ZIP5 returned
    resolved,    \* get_zip5_from_row has returned
    finalizers,  \* concurrent finalize: campaign -> what its run holds in memory
    tracker_writes, \* concurrent finalize: the runs in the order they wrote the tracker
    stage,       \* pipeline: the last step that has run
    source_lists, \* pipeline: the --mandatory files, [headers, rows] each
    selection,   \* pipeline: the selection of the build of the campaign
    campaign_master, \* pipeline: campaign_master.csv, [headers, rows]
    letters_mapping, \* pipeline: the mapping file of generate_letters.py
    next_selection \* pipeline: the selection of the build of the next campaign

ledgerVars == <<logs, tracker, tally, marker, master, today, rebuilt, lastRun>>

pickVars == <<candidates, target, strict_150, seed, first_pass, chosen, picked>>

binVars == <<zips, bins, planned, pages, drawn>>

priorVars == <<lead, policy, verdict, filtered>>

buildVars == <<phase, target_size, sources, seen_keys, all_candidates, stats,
               mandatory, optional, exit_code, camp_dir, outputs>>

zipVars == <<zip_row, zip_addr, zip5, resolved>>

raceVars == <<finalizers, tracker_writes>>

pipeVars == <<stage, source_lists, selection, campaign_master, letters_mapping,
              next_selection>>

vars == <<ledgerVars, pickVars, binVars, priorVars, buildVars, zipVars, raceVars,
          pipeVars>>

-----------------------------------------------------------------------------
(* Bounds *)

MaxCampaign == 2
MaxLog == 2
MaxDay == 2

Campaigns == 1..MaxCampaign

-----------------------------------------------------------------------------
(* Generic helpers *)

Range(s) == { s[i] : i \in DOMAIN s }

Min(a, b) == IF a < b THEN a ELSE b

Max(a, b) == IF a > b THEN a ELSE b

RECURSIVE SortedSeq(_)
SortedSeq(S) ==
    IF S = {} THEN << >>
    ELSE LET m == CHOOSE x \in S : \A y \in S : x <= y
         IN  <<m>> \o SortedSeq(S \ {m})

MapGet(f, k, dflt) == IF k \in DOMAIN f THEN f[k] ELSE dflt

EmptyMap == [k \in {} |-> 0]

-----------------------------------------------------------------------------
(* Text helpers *)

IsSpace(ch) == ch = " "

UpperChar(ch) ==
    CASE ch = "a" -> "A"
      [] ch = "b" -> "B"
      [] ch = "c" -> "C"
      [] ch = "o" -> "O"
      [] ch = "x" -> "X"
      [] ch = "y" -> "Y"
      [] OTHER -> ch

upper(s) == [i \in 1..Len(s) |-> UpperChar(s[i])]

RECURSIVE lstrip(_)
lstrip(s) == IF s # << >> /\ IsSpace(Head(s)) THEN lstrip(Tail(s)) ELSE s

RECURSIVE rstrip(_)
rstrip(s) ==
    IF s # << >> /\ IsSpace(s[Len(s)]) THEN rstrip(SubSeq(s, 1, Len(s) - 1)) ELSE s

strip(s) == rstrip(lstrip(s))

\* re.sub(r"\s+", " ", ...): every run of blanks becomes one blank
RECURSIVE collapse(_)
collapse(s) ==
    IF Len(s) < 2 THEN s
    ELSE IF IsSpace(s[1]) /\ IsSpace(s[2]) THEN collapse(Tail(s))
    ELSE <<s[1]>> \o collapse(Tail(s))

norm_space(s) == collapse(strip(s))

norm_key(addr, owner) == <<upper(norm_space(addr)), upper(norm_space(owner))>>

-----------------------------------------------------------------------------
(* Inputs of the ledger runs *)

AddrAB   == <<"a", " ", "b">>
AddrAB2  == <<"A", " ", " ", "b">>
AddrC    == <<"c">>
OwnerX   == <<"x">>
OwnerX2  == <<"X">>
NoText   == << >>

KeyAB == norm_key(AddrAB, OwnerX)

MapRow(a, o, ref, t, z) ==
    [property_address |-> a, owner |-> o, ref_code |-> ref, template_ref |-> t, ZIP5 |-> z]

RowAB    == MapRow(AddrAB,  OwnerX,  "r1", "t1", "95835")
RowAB2   == MapRow(AddrAB2, OwnerX2, "",   "t2", "")
RowC     == MapRow(AddrC,   OwnerX,  "r1", "",   "95630")
RowNoOwn == MapRow(AddrC,   NoText,  "",   "t1", "95835")

\* letters_mapping.csv: no row, one row, a repeated key, a repeated ref code,
\* a row without owner
Mappings ==
    { << >>, <<RowAB>>, <<RowAB2>>, <<RowC>>, <<RowNoOwn>>, <<RowAB, RowAB2>> }

\* campaign_master.csv as build_zip_index_from_master indexes it: the master
\* of campaign 1 resolves a ZIP for one key, the other folders hold none
MasterIndex == [c \in Campaigns |-> IF c = 1 THEN (KeyAB :> "95630") ELSE EmptyMap]

\* the command lines of a normal finalize: --force-recount and --write-marker
\* in every combination, --dry-run, and --rebuild-templates with and without
\* --dry-run and --marker-required
FinalizeArgs ==
    [force_recount : BOOLEAN, dry_run : {FALSE}, write_marker : BOOLEAN,
     rebuild_templates : {FALSE}, marker_required : {FALSE}]
    \cup
    [force_recount : {FALSE}, dry_run : {TRUE}, write_marker : {TRUE},
     rebuild_templates : BOOLEAN, marker_required : {FALSE}]
    \cup
    [force_recount : {FALSE}, dry_run : {FALSE}, write_marker : {FALSE},
     rebuild_templates : {TRUE}, marker_required : BOOLEAN]

-----------------------------------------------------------------------------
(* finalize_or_rebuild.py: normal finalize *)

LogRow(dt, cn, owner, addr, templ, refc, z5) ==
    [ExecutedDt |-> dt, CampaignNumber |-> cn, OwnerName |-> owner,
     PropertyAddress |-> addr, TemplateId |-> templ, RefCode |-> refc, ZIP5 |-> z5]

\* keys and ref codes already in the executed log (lines 197-206)
exist_pair_campaign(existing_log) ==
    { <<norm_key(r.PropertyAddress, r.OwnerName), r.CampaignNumber>> :
        r \in Range(existing_log) }

exist_ref(existing_log) ==
    { r.RefCode : r \in { x \in Range(existing_log) : x.RefCode # "" } }

\* ZIP5 of a mapping row: its own ZIP, else the master index (lines 214-216);
\* the ZIP5 field of a mapping row stands for
\* r.get("ZIP5") or get_zip_from_row_generic(r)
MappingZip(r, zip_idx) ==
    IF r.ZIP5 = "" /\ r.property_address # NoText /\ r.owner # NoText
    THEN MapGet(zip_idx, norm_key(r.property_address, r.owner), "")
    ELSE r.ZIP5

\* a skip test that looks at ref codes only
AlreadyLogged_RefOnly(r, existing_log, campaign_number, force_recount) ==
    /\ ~force_recount
    /\ r.ref_code # "" /\ r.ref_code \in { x.RefCode : x \in Range(existing_log) }

\* the skip test of one mapping row (lines 218-222)
AlreadyLogged(r, existing_log, campaign_number, force_recount) ==
    /\ ~force_recount
    /\ \/ <<norm_key(r.property_address, r.owner), campaign_number>>
              \in exist_pair_campaign(existing_log)
       \/ r.ref_code # "" /\ r.ref_code \in exist_ref(existing_log)

\* the rows to append (lines 208-233)
ToAdd(existing_log, mapping_rows, campaign_number, force_recount, zip_idx, dt) ==
    LET Keep(r) == ~AlreadyLogged(r, existing_log, campaign_number, force_recount)
        kept == SelectSeq(mapping_rows, Keep)
    IN  [i \in 1..Len(kept) |->
            LogRow(dt, campaign_number, kept[i].owner, kept[i].property_address,
                   kept[i].template_ref, kept[i].ref_code,
                   MappingZip(kept[i], zip_idx))]

\* the tracker file read back into the dict idx (line 255)
TrackerIdx(rows) ==
    LET keyed == { [key |-> norm_key(rows[x].PropertyAddress, rows[x].OwnerName),
                    row |-> rows[x]] : x \in DOMAIN rows }
    IN  CHOOSE idx \in { [k \in { e.key : e \in kd } |->
                             (CHOOSE e \in kd : e.key = k).row] :
                         kd \in { keyed } } : TRUE

NonEmptyTemplates(rows) ==
    LET HasTemplate(r) == r.TemplateId # ""
        sel == SelectSeq(rows, HasTemplate)
    IN  [i \in 1..Len(sel) |-> sel[i].TemplateId]

\* a count incremented by the appended rows instead of recomputed
UpdatedRecord_BlindIncrement(tr, rows, today_str) ==
    LET r0 == rows[1]
        cn_set == Range(tr.CampaignNumbers) \cup { rr.CampaignNumber : rr \in Range(rows) }
    IN  [PropertyAddress |-> tr.PropertyAddress,
         OwnerName       |-> tr.OwnerName,
         ZIP5            |-> IF tr.ZIP5 = "" /\ r0.ZIP5 # "" THEN r0.ZIP5 ELSE tr.ZIP5,
         CampaignCount   |-> tr.CampaignCount + Len(rows),
         FirstSentDt     |-> IF tr.FirstSentDt # 0 THEN tr.FirstSentDt ELSE today_str,
         LastSentDt      |-> today_str,
         CampaignNumbers |-> SortedSeq(cn_set),
         TemplateIds     |-> tr.TemplateIds \o [i \in 1..Len(rows) |-> rows[i].TemplateId]]

\* new campaign numbers appended behind the ones the record holds
UpdatedRecord_NumbersAppended(tr, rows, today_str) ==
    LET r0 == rows[1]
        cn_new == { rr.CampaignNumber : rr \in Range(rows) } \ Range(tr.CampaignNumbers)
    IN  [PropertyAddress |-> IF tr.PropertyAddress # NoText
                             THEN tr.PropertyAddress ELSE r0.PropertyAddress,
         OwnerName       |-> IF tr.OwnerName # NoText THEN tr.OwnerName ELSE r0.OwnerName,
         ZIP5            |-> IF tr.ZIP5 = "" /\ r0.ZIP5 # "" THEN r0.ZIP5 ELSE tr.ZIP5,
         CampaignCount   |-> Len(tr.CampaignNumbers) + Cardinality(cn_new),
         FirstSentDt     |-> IF tr.FirstSentDt # 0 THEN tr.FirstSentDt ELSE today_str,
         LastSentDt      |-> today_str,
         CampaignNumbers |-> tr.CampaignNumbers \o SortedSeq(cn_new),
         TemplateIds     |-> tr.TemplateIds \o NonEmptyTemplates(rows)]

\* a record that takes the ZIP5 of the newest row
UpdatedRecord_LatestZip(tr, rows, today_str) ==
    LET r0 == rows[1]
        cn_set == Range(tr.CampaignNumbers) \cup { rr.CampaignNumber : rr \in Range(rows) }
    IN  [PropertyAddress |-> IF tr.PropertyAddress # NoText
                             THEN tr.PropertyAddress ELSE r0.PropertyAddress,
         OwnerName       |-> IF tr.OwnerName # NoText THEN tr.OwnerName ELSE r0.OwnerName,
         ZIP5            |-> IF r0.ZIP5 # "" THEN r0.ZIP5 ELSE tr.ZIP5,
         CampaignCount   |-> Cardinality(cn_set),
         FirstSentDt     |-> IF tr.FirstSentDt # 0 THEN tr.FirstSentDt ELSE today_str,
         LastSentDt      |-> today_str,
         CampaignNumbers |-> SortedSeq(cn_set),
         TemplateIds     |-> tr.TemplateIds \o NonEmptyTemplates(rows)]

\* templates kept as a set: a template the record already holds is not
\* added again
UpdatedRecord_UniqueTemplates(tr, rows, today_str) ==
    LET r0 == rows[1]
        cn_set == Range(tr.CampaignNumbers) \cup { rr.CampaignNumber : rr \in Range(rows) }
        IsNew(t) == t \notin Range(tr.TemplateIds)
    IN  [PropertyAddress |-> IF tr.PropertyAddress # NoText
                             THEN tr.PropertyAddress ELSE r0.PropertyAddress,
         OwnerName       |-> IF tr.OwnerName # NoText THEN tr.OwnerName ELSE r0.OwnerName,
         ZIP5            |-> IF tr.ZIP5 = "" /\ r0.ZIP5 # "" THEN r0.ZIP5 ELSE tr.ZIP5,
         CampaignCount   |-> Cardinality(cn_set),
         FirstSentDt     |-> IF tr.FirstSentDt # 0 THEN tr.FirstSentDt ELSE today_str,
         LastSentDt      |-> today_str,
         CampaignNumbers |-> SortedSeq(cn_set),
         TemplateIds     |-> tr.TemplateIds \o SelectSeq(NonEmptyTemplates(rows), IsNew)]

\* the record of a key that is already tracked (lines 269-292)
UpdatedRecord(tr, rows, today_str) ==
    LET r0 == rows[1]
        cn_set == Range(tr.CampaignNumbers) \cup { rr.CampaignNumber : rr \in Range(rows) }
    IN  [PropertyAddress |-> IF tr.PropertyAddress # NoText
                             THEN tr.PropertyAddress ELSE r0.PropertyAddress,
         OwnerName       |-> IF tr.OwnerName # NoText THEN tr.OwnerName ELSE r0.OwnerName,
         ZIP5            |-> IF tr.ZIP5 = "" /\ r0.ZIP5 # "" THEN r0.ZIP5 ELSE tr.ZIP5,
         CampaignCount   |-> Cardinality(cn_set),
         FirstSentDt     |-> IF tr.FirstSentDt # 0 THEN tr.FirstSentDt ELSE today_str,
         LastSentDt      |-> today_str,
         CampaignNumbers |-> SortedSeq(cn_set),
         TemplateIds     |-> tr.TemplateIds \o NonEmptyTemplates(rows)]

\* the record of a key seen for the first time (lines 293-305)
NewRecord(rows, today_str) ==
    LET r0 == rows[1]
        cn_set == { r0.CampaignNumber }
    IN  [PropertyAddress |-> r0.PropertyAddress,
         OwnerName       |-> r0.OwnerName,
         ZIP5            |-> r0.ZIP5,
         CampaignCount   |-> Cardinality(cn_set),
         FirstSentDt     |-> today_str,
         LastSentDt      |-> today_str,
         CampaignNumbers |-> SortedSeq(cn_set),
         TemplateIds     |-> NonEmptyTemplates(rows)]

\* by_pair_new: the appended rows of each key, keyed as the log row is
\* (lines 257-260)
KeyedRows(to_add) ==
    [i \in DOMAIN to_add |->
        [key |-> norm_key(to_add[i].PropertyAddress, to_add[i].OwnerName),
         row |-> to_add[i]]]

RowsOfKey(keyed, k) ==
    LET OfKey(x) == x.key = k
        sel == SelectSeq(keyed, OfKey)
    IN  [i \in 1..Len(sel) |-> sel[i].row]

\* the records written back (lines 263-310)
UpdatedRows(idx, keyed, today_str) ==
    LET new_keys == { keyed[i].key : i \in DOMAIN keyed }
    IN  [k \in DOMAIN idx \cup new_keys |->
            IF k \notin new_keys THEN idx[k]
            ELSE IF k \in DOMAIN idx
                 THEN UpdatedRecord(idx[k], RowsOfKey(keyed, k), today_str)
                 ELSE NewRecord(RowsOfKey(keyed, k), today_str)]

\* a tracker written from the appended rows alone, whatever was read
UpdateTracker_NewKeysOnly(tracker_rows, to_add, today_str) ==
    CHOOSE rows \in { UpdatedRows(EmptyMap, keyed, today_str) :
                        keyed \in { KeyedRows(to_add) } } : TRUE

\* tracker update from the appended rows (lines 251-310)
UpdateTracker(tracker_rows, to_add, today_str) ==
    CHOOSE rows \in { UpdatedRows(idx, keyed, today_str) :
                        idx \in { TrackerIdx(tracker_rows) },
                        keyed \in { KeyedRows(to_add) } } : TRUE

\* folders that hold an executed_campaign_log.csv: the file is written only
\* with at least one row (lines 241-246)
HasLog(lg, c) == Len(lg[c]) > 0

\* rebuild_zip5_tally (lines 326-345)
RECURSIVE AllLogRows(_, _)
AllLogRows(lg, folders) ==
    IF folders = << >> THEN << >>
    ELSE lg[Head(folders)] \o AllLogRows(lg, Tail(folders))

\* a tally that counts the rows without ZIP5 as well
rebuild_zip5_tally_WithEmpty(lg) ==
    LET rows == AllLogRows(lg, SortedSeq(DOMAIN lg))
        counted == { rows[i].ZIP5 : i \in DOMAIN rows }
    IN  [z \in counted |-> Cardinality({ i \in DOMAIN rows : rows[i].ZIP5 = z })]

rebuild_zip5_tally(lg) ==
    LET rows == AllLogRows(lg, SortedSeq(DOMAIN lg))
        counted == { rows[i].ZIP5 : i \in DOMAIN rows } \ {""}
    IN  [z \in counted |-> Cardinality({ i \in DOMAIN rows : rows[i].ZIP5 = z })]

\* a reader that normalises the address and the owner of every row
read_csv_Normalised(rows) ==
    [i \in DOMAIN rows |->
        [rows[i] EXCEPT !.PropertyAddress = norm_space(@), !.OwnerName = norm_space(@)]]

\* read_csv (lines 38-41) of an executed log: every cell stripped
read_csv(rows) ==
    [i \in DOMAIN rows |->
        [rows[i] EXCEPT !.PropertyAddress = strip(@), !.OwnerName = strip(@)]]

\* the executed log after the run (lines 194-195, 241-249): rewritten as
\* the rows read from it followed by the new rows, left alone without new
\* rows
LogWritten(existing, to_add) ==
    IF to_add = << >> THEN existing ELSE read_csv(existing) \o to_add

\* append_executed_and_update_tracker (lines 169-324) on the files
\* st = [logs, tracker, tally, marker]
append_executed_and_update_tracker(st, c, mapping_rows, force_recount, dry_run, write_marker, zip_idx, today_str) ==
    LET Written(to_add) ==
            [logs    |-> [st.logs EXCEPT ![c] = LogWritten(@, to_add)],
             tracker |-> UpdateTracker(st.tracker, to_add, today_str),
             tally   |-> rebuild_zip5_tally([st.logs EXCEPT ![c] = LogWritten(@, to_add)]),
             marker  |-> IF write_marker THEN [st.marker EXCEPT ![c] = TRUE]
                         ELSE st.marker,
             found   |-> st.found]
    IN  IF mapping_rows = << >> \/ dry_run THEN st
        ELSE CHOOSE r \in { Written(t) :
                              t \in { ToAdd(st.logs[c], mapping_rows, c, force_recount,
                                            zip_idx, today_str) } } : TRUE

-----------------------------------------------------------------------------
(* finalize_or_rebuild.py: rebuild-all *)

\* discover_campaign_folders (lines 347-359): sorted folders holding a log
discover_campaign_folders(lg, mk, marker_required) ==
    SortedSeq({ c \in DOMAIN lg : HasLog(lg, c) /\ (marker_required => mk[c]) })

\* one executed-log row with key `key` folded into agg (lines 385-421)
AggKeyed(agg, r, key, zip_idx) ==
    LET addr == r.PropertyAddress
        owner == r.OwnerName
        z5 == IF r.ZIP5 # "" THEN r.ZIP5 ELSE MapGet(zip_idx, key, "")
        dt == r.ExecutedDt
        rec0 == IF key \in DOMAIN agg THEN agg[key]
                ELSE [PropertyAddress |-> addr, OwnerName |-> owner, ZIP5 |-> z5,
                      CampaignNumbers |-> {}, TemplateIds |-> << >>,
                      FirstSentDt |-> 0, LastSentDt |-> 0]
        rec1 == [PropertyAddress |-> IF rec0.PropertyAddress = NoText THEN addr
                                     ELSE rec0.PropertyAddress,
                 OwnerName       |-> IF rec0.OwnerName = NoText THEN owner
                                     ELSE rec0.OwnerName,
                 ZIP5            |-> IF rec0.ZIP5 = "" /\ z5 # "" THEN z5 ELSE rec0.ZIP5,
                 CampaignNumbers |-> rec0.CampaignNumbers \cup {r.CampaignNumber},
                 TemplateIds     |-> IF r.TemplateId # ""
                                     THEN Append(rec0.TemplateIds, r.TemplateId)
                                     ELSE rec0.TemplateIds,
                 FirstSentDt     |-> IF dt # 0 /\ (rec0.FirstSentDt = 0 \/ dt < rec0.FirstSentDt)
                                     THEN dt ELSE rec0.FirstSentDt,
                 LastSentDt      |-> IF dt # 0 /\ (rec0.LastSentDt = 0 \/ dt > rec0.LastSentDt)
                                     THEN dt ELSE rec0.LastSentDt]
    IN  [k \in DOMAIN agg \cup {key} |-> IF k = key THEN rec1 ELSE agg[k]]

\* one executed-log row folded into agg; rows without address or owner are
\* skipped (lines 380-384)
AggRow(agg, r, zip_idx) ==
    IF r.PropertyAddress = NoText \/ r.OwnerName = NoText THEN agg
    ELSE CHOOSE a \in { AggKeyed(agg, r, key, zip_idx) :
                          key \in { norm_key(r.PropertyAddress, r.OwnerName) } } : TRUE

RECURSIVE AggRows(_, _, _)
AggRows(agg, rows, zip_idx) ==
    IF rows = << >> THEN agg
    ELSE AggRows(AggRow(agg, Head(rows), zip_idx), Tail(rows), zip_idx)

RECURSIVE AggFolders(_, _, _, _)
AggFolders(agg, folders, lg, ms) ==
    IF folders = << >> THEN agg
    ELSE AggFolders(AggRows(agg, lg[Head(folders)], ms[Head(folders)]),
                    Tail(folders), lg, ms)

\* the final rows built from agg (lines 424-438)
FinalRows(agg) ==
    [k \in DOMAIN agg |->
        LET cns == SortedSeq({ x \in agg[k].CampaignNumbers : x # 0 })
        IN  [PropertyAddress |-> agg[k].PropertyAddress,
             OwnerName       |-> agg[k].OwnerName,
             ZIP5            |-> agg[k].ZIP5,
             CampaignCount   |-> Len(cns),
             FirstSentDt     |-> agg[k].FirstSentDt,
             LastSentDt      |-> agg[k].LastSentDt,
             CampaignNumbers |-> cns,
             TemplateIds     |-> agg[k].TemplateIds]]

\* the rebuilt tracker rows (lines 370-438); the one-element sets make the
\* aggregate a value that is computed once
RebuildRows(folders, lg, ms) ==
    CHOOSE rows \in { FinalRows(agg) :
                        agg \in { AggFolders(EmptyMap, folders, lg, ms) } } : TRUE

\* rebuild_tracker_from_all (lines 361-446) on the files st
rebuild_tracker_from_all(st, marker_required, ms) ==
    LET Rebuilt(folders) ==
            IF folders = << >> THEN [st EXCEPT !.found = FALSE]
            ELSE [st EXCEPT !.tracker = RebuildRows(folders, st.logs, ms),
                            !.tally = rebuild_zip5_tally(st.logs),
                            !.found = TRUE]
    IN  CHOOSE r \in { Rebuilt(f) :
                         f \in { discover_campaign_folders(st.logs, st.marker,
                                                           marker_required) } } : TRUE

-----------------------------------------------------------------------------
(* The runs of finalize_or_rebuild.py *)

\* found: the last rebuild-all of the run found campaign folders
\* no selection is under way
NoPick ==
    /\ candidates = << >>
    /\ target = 0
    /\ strict_150 = FALSE
    /\ seed = 0
    /\ first_pass = << >>
    /\ chosen = << >>
    /\ picked = FALSE

\* no bin plan is under way
NoPlan ==
    /\ zips = << >>
    /\ bins = << >>
    /\ planned = FALSE
    /\ pages = << >>
    /\ drawn = FALSE

\* Optional[int]: << >> is None, <<n>> is the number n
NoneInt == << >>

\* no history filter is under way
NoFilter ==
    /\ lead = << >>
    /\ policy = [prior_exact |-> NoneInt, prior_max |-> NoneInt, min_gap |-> 0,
                 campaign_number |-> 1]
    /\ verdict = FALSE
    /\ filtered = FALSE

\* stats as main() sets it up (lines 359-362)
NoStats ==
    [b \in {"MAND", "POOL"} |->
        [kept |-> 0, deduped |-> 0, dropped_prior |-> 0, missing_addr |-> 0,
         missing_owner |-> 0]]

\* no build run is under way
NoBuild ==
    /\ phase = "none"
    /\ target_size = 0
    /\ sources = << >>
    /\ seen_keys = {}
    /\ all_candidates = << >>
    /\ stats = NoStats
    /\ mandatory = << >>
    /\ optional = << >>
    /\ exit_code = NoneInt
    /\ camp_dir = FALSE
    /\ outputs = {}

\* no ZIP5 is being resolved
NoResolve ==
    /\ zip_row = << >>
    /\ zip_addr = << >>
    /\ zip5 = << >>
    /\ resolved = FALSE

\* no concurrent finalize runs are under way
NoRace ==
    /\ finalizers = << >>
    /\ tracker_writes = << >>

NoPipeline ==
    /\ stage = "none"
    /\ source_lists = << >>
    /\ selection = << >>
    /\ campaign_master = [headers |-> << >>, rows |-> << >>]
    /\ letters_mapping = << >>
    /\ next_selection = << >>

Files ==
    [logs |-> logs, tracker |-> tracker, tally |-> tally, marker |-> marker,
     found |-> FALSE]

\* an empty root folder: no log, no tracker, no tally, no marker
NoLedger ==
    /\ logs = [c \in Campaigns |-> << >>]
    /\ tracker = EmptyMap
    /\ tally = EmptyMap
    /\ marker = [c \in Campaigns |-> FALSE]
    /\ master = MasterIndex
    /\ today = 1
    /\ rebuilt = FALSE
    /\ lastRun = [op |-> "none", c |-> 0, added |-> 0]

Init ==
    /\ NoLedger
    /\ NoPick
    /\ NoPlan
    /\ NoFilter
    /\ NoBuild
    /\ NoResolve
    /\ NoRace
    /\ NoPipeline

\* main() without --rebuild-all (lines 474-482)
Finalize(c, m, args) ==
    \E st1 \in { append_executed_and_update_tracker(Files, c, m, args.force_recount, args.dry_run, args.write_marker, master[c], today) } :
    \E st2 \in { IF args.rebuild_templates
                 THEN rebuild_tracker_from_all(st1, args.marker_required, master)
                 ELSE st1 } :
        /\ Len(AllLogRows(st1.logs, SortedSeq(Campaigns))) <= MaxLog
        /\ logs' = st2.logs
        /\ tracker' = st2.tracker
        /\ tally' = st2.tally
        /\ marker' = st2.marker
        /\ rebuilt' = (rebuilt \/ (args.rebuild_templates /\ st2.found))
        /\ lastRun' = [op |-> IF m = << >> THEN "no_rows"
                              ELSE IF args.dry_run THEN "dry_run" ELSE "finalize",
                       c |-> c,
                       added |-> Len(st1.logs[c]) - Len(logs[c])]
        /\ UNCHANGED <<master, today, pickVars, binVars, priorVars, buildVars, zipVars, raceVars, pipeVars>>

\* main() with --rebuild-all or --reindex-all (lines 471-472)
RebuildAll(marker_required) ==
    \E st1 \in { rebuild_tracker_from_all(Files, marker_required, master) } :
        /\ logs' = st1.logs
        /\ tracker' = st1.tracker
        /\ tally' = st1.tally
        /\ marker' = st1.marker
        /\ rebuilt' = (rebuilt \/ st1.found)
        /\ lastRun' = [op |-> "rebuild", c |-> 0, added |-> 0]
        /\ UNCHANGED <<master, today, pickVars, binVars, priorVars, buildVars, zipVars, raceVars, pipeVars>>

\* the calendar moves on between runs
NextDay ==
    /\ today < MaxDay
    /\ today' = today + 1
    /\ UNCHANGED <<logs, tracker, tally, marker, master, rebuilt, lastRun, pickVars, binVars, priorVars, buildVars, zipVars, raceVars, pipeVars>>

Next ==
    \/ \E c \in Campaigns, m \in Mappings, args \in FinalizeArgs : Finalize(c, m, args)
    \/ \E marker_required \in BOOLEAN : RebuildAll(marker_required)

\* the runs of one day
Spec == Init /\ [][Next]_vars

\* the runs of several days
NextCalendar == Next \/ NextDay

SpecCalendar == Init /\ [][NextCalendar]_vars

-----------------------------------------------------------------------------
(* Claims about the ledger *)

\* CampaignNumbers, CampaignCount and TemplateIds of every record
CountView(rows) ==
    [k \in DOMAIN rows |-> <<rows[k].CampaignNumbers, rows[k].CampaignCount>>]

HistoryView(rows) ==
    [k \in DOMAIN rows |->
        <<rows[k].CampaignNumbers, rows[k].CampaignCount, rows[k].TemplateIds>>]

\* C1: from every reachable ledger and executed log, a finalize run of a
\* campaign (forced or not) followed by a second run without --force-recount
\* on the same mapping appends no row to the campaign's log and leaves
\* CampaignCount, CampaignNumbers and TemplateIds of every record as the
\* first run left them.
FinalizeIdempotent ==
    \A c \in Campaigns, m \in Mappings, force_first \in BOOLEAN :
        LET st1 == append_executed_and_update_tracker(Files, c, m, force_first, FALSE,
                                                      FALSE, master[c], today)
            st2 == append_executed_and_update_tracker(st1, c, m, FALSE, FALSE,
                                                      FALSE, master[c], today)
        IN  /\ st2.logs[c] = st1.logs[c]
            /\ HistoryView(st2.tracker) = HistoryView(st1.tracker)

\* a run that wrote and found every row of its mapping already logged
RerunAppendedNothing ==
    /\ lastRun.op = "finalize"
    /\ lastRun.added = 0
    /\ Len(logs[lastRun.c]) > 0
    /\ tracker # EmptyMap

\* C2: every ledger record has CampaignCount equal to the number of distinct
\* entries of its CampaignNumbers, after any sequence of finalize runs
\* (repeated, forced) and rebuild-all runs.
CountIsDistinctNumbers ==
    \A k \in DOMAIN tracker :
        tracker[k].CampaignCount = Cardinality(Range(tracker[k].CampaignNumbers))

\* a key logged twice for one campaign and still counted once
SameCampaignLoggedTwice ==
    \E c \in Campaigns : \E i, j \in DOMAIN logs[c] :
        /\ i < j
        /\ LET k == norm_key(logs[c][i].PropertyAddress, logs[c][i].OwnerName)
           IN  /\ k = norm_key(logs[c][j].PropertyAddress, logs[c][j].OwnerName)
               /\ k \in DOMAIN tracker
               /\ tracker[k].CampaignCount = 1

\* C3: as long as the ledger has only been maintained by finalize runs, a
\* rebuild-all over the executed logs yields the same keys with the same
\* CampaignNumbers and CampaignCount as the ledger holds.
RebuildEqualsIncremental ==
    ~rebuilt =>
        CountView(rebuild_tracker_from_all(Files, FALSE, master).tracker)
            = CountView(tracker)


-----------------------------------------------------------------------------
(* BuildMasterCampaignList_v4_MAILZIPFirst.py: pick_optimized              *)
(*                                                                         *)
(* A candidate is [key, ZIP5]: key stands for the dedup key of the row,    *)
(* which ingestion keeps unique; ZIP5 is a sequence of digit characters,   *)
(* << >> being the empty ZIP, so that the ZIP3 prefix is computed.         *)

TraySize == 150

MaxRuns == 2
MaxSeed == 1

Zip834 == <<"9", "5", "8", "3", "4">>
Zip835 == <<"9", "5", "8", "3", "5">>
NoZip  == << >>

PickZips == { Zip834, Zip835, NoZip }

\* lengths of a run of candidates with one ZIP5: a single row, one whole
\* tray, one tray and twenty rows
RunLens == { 1, TraySize, TraySize + 20 }

RunLists == UNION { [1..n -> [z5 : PickZips, n : RunLens]] : n \in 0..MaxRuns }

RECURSIVE RunsLen(_)
RunsLen(runs) == IF runs = << >> THEN 0 ELSE Head(runs).n + RunsLen(Tail(runs))

\* the ZIP5 column of the rows that the runs describe
RECURSIVE RunsZips(_)
RunsZips(runs) ==
    IF runs = << >> THEN << >>
    ELSE [i \in 1..Head(runs).n |-> Head(runs).z5] \o RunsZips(Tail(runs))

\* candidate rows with distinct keys, as ingestion leaves them
RunsCandidates(runs) ==
    LET zs == RunsZips(runs)
    IN  [i \in DOMAIN zs |-> [key |-> i, ZIP5 |-> zs[i]]]

\* --target-size: main() ends the run at line 402 when the target is below
\* the number of mandatory survivors, so no negative target reaches the
\* selection
Targets == { 0, 1, 100, TraySize, TraySize + 10, 2 * TraySize, 1000 }

Seeds == 0..MaxSeed

\* s[:k]
Prefix(s, k) == SubSeq(s, 1, Min(Max(k, 0), Len(s)))

\* s[k:]
Suffix(s, k) == SubSeq(s, Min(Max(k, 0), Len(s)) + 1, Len(s))

\* random.shuffle(bucket): one of the permutations, picked by the seed of
\* the run: a rotation, reversed for odd seeds
shuffle(bucket, sd) ==
    LET n == Len(bucket)
        rot == IF n = 0 THEN 0 ELSE (sd \div 2) % n
        turned == Suffix(bucket, rot) \o Prefix(bucket, rot)
    IN  IF sd % 2 = 1 THEN [i \in 1..n |-> turned[n + 1 - i]] ELSE turned

\* a defaultdict(list) filled row by row: keys in order of first insertion,
\* and the rows of every key in input order; row i has the key keyOf[i]
GroupRows(rows, keyOf) ==
    LET ks == { keyOf[i] : i \in DOMAIN rows }
        First(k) == CHOOSE i \in DOMAIN rows :
                        keyOf[i] = k /\ \A j \in 1..(i - 1) : keyOf[j] # k
        Nth(p) == CHOOSE k \in ks :
                        Cardinality({ x \in ks : First(x) < First(k) }) = p - 1
        tagged == [i \in DOMAIN rows |-> [k |-> keyOf[i], r |-> rows[i]]]
        OfKey(k) == LET Is(x) == x.k = k
                        sel == SelectSeq(tagged, Is)
                    IN  [p \in DOMAIN sel |-> sel[p].r]
    IN  [keys |-> [p \in 1..Cardinality(ks) |-> Nth(p)],
         rows |-> [k \in ks |-> OfKey(k)]]

\* sorted(d.items(), key=..., reverse=True) as the keys of d in sorted order;
\* rank[k] is the sort key of k as a tuple of numbers, and keys of equal
\* rank keep the order they have in d (the sort is stable)
TupleGreater(a, b) ==
    \E i \in DOMAIN a : a[i] > b[i] /\ \A j \in 1..(i - 1) : a[j] = b[j]

SortedKeysDesc(keys, rank) ==
    LET Before(i, j) == \/ TupleGreater(rank[keys[i]], rank[keys[j]])
                        \/ rank[keys[i]] = rank[keys[j]] /\ i < j
        At(p) == CHOOSE i \in DOMAIN keys :
                     Cardinality({ j \in DOMAIN keys : Before(j, i) }) = p - 1
    IN  [p \in DOMAIN keys |-> keys[At(p)]]

\* (len(bucket) // 150) * 150 (line 244)
take_n_All(bucket) == Len(bucket)

take_n(bucket) == (Len(bucket) \div TraySize) * TraySize

\* what the whole-tray pass leaves of a bucket for the next pass (line 247)
rest_of_bucket_Keep(bucket, n) == bucket

rest_of_bucket(bucket, n) == Suffix(bucket, Min(n, Len(bucket)))

\* by_zip5 (lines 233-235)
group_by_zip5(cands) == GroupRows(cands, [i \in DOMAIN cands |-> cands[i].ZIP5])

\* by_zip3 (lines 267-270)
group_by_zip3(remaining) ==
    GroupRows(remaining, [i \in DOMAIN remaining |-> Prefix(remaining[i].ZIP5, 3)])

\* buckets ordered by (zip5 != "", len) descending
BucketOrder_NonEmptyFirst(by_zip5) ==
    SortedKeysDesc(by_zip5.keys,
        [k \in DOMAIN by_zip5.rows |->
            <<IF k # NoZip THEN 1 ELSE 0, Len(by_zip5.rows[k])>>])

\* buckets (line 237): by (len, zip5 != "") descending
BucketOrder(by_zip5) ==
    SortedKeysDesc(by_zip5.keys,
        [k \in DOMAIN by_zip5.rows |->
            <<Len(by_zip5.rows[k]), IF k # NoZip THEN 1 ELSE 0>>])

\* leftovers, zip3_buckets (lines 250, 271): by len descending
SizeOrder(groups) ==
    SortedKeysDesc(groups.keys, [k \in DOMAIN groups.rows |-> <<Len(groups.rows[k])>>])

\* the loop of the whole-tray pass (lines 241-247) over the buckets in
\* `order`; a bucket is shuffled in place, so by_zip5 sees the new order
RECURSIVE strict_pass(_, _, _, _, _)
strict_pass(order, by_zip5, chosen0, tgt, sd) ==
    IF order = << >> \/ Len(chosen0) >= tgt
    THEN [chosen |-> chosen0, by_zip5 |-> by_zip5]
    ELSE LET z5 == Head(order)
             Step(bucket) ==
                 IF take_n(bucket) = 0
                 THEN strict_pass(Tail(order), [by_zip5 EXCEPT !.rows[z5] = bucket],
                                  chosen0, tgt, sd)
                 ELSE strict_pass(Tail(order),
                          [by_zip5 EXCEPT !.rows[z5] = rest_of_bucket(bucket, take_n(bucket))],
                          chosen0 \o Prefix(bucket, Min(take_n(bucket), tgt - Len(chosen0))),
                          tgt, sd)
         IN  CHOOSE r \in { Step(b) : b \in { shuffle(by_zip5.rows[z5], sd) } } : TRUE

\* a fill that takes a bucket only when all of it fits under the target
RECURSIVE fill_WholeBuckets(_, _, _, _, _)
fill_WholeBuckets(order, buckets, chosen0, tgt, sd) ==
    IF order = << >> \/ Len(chosen0) >= tgt THEN chosen0
    ELSE fill_WholeBuckets(Tail(order), buckets,
              IF Len(buckets[Head(order)]) <= tgt - Len(chosen0)
              THEN chosen0 \o shuffle(buckets[Head(order)], sd)
              ELSE chosen0,
              tgt, sd)

\* the row-by-row fill of the later passes (lines 251-256, 258-263, 272-277)
RECURSIVE fill(_, _, _, _, _)
fill(order, buckets, chosen0, tgt, sd) ==
    IF order = << >> \/ Len(chosen0) >= tgt THEN chosen0
    ELSE fill(Tail(order), buckets,
              chosen0 \o Prefix(shuffle(buckets[Head(order)], sd), tgt - Len(chosen0)),
              tgt, sd)

\* chosen and by_zip5 as the whole-tray pass leaves them (lines 238-247)
whole_tray_pass(cands, tgt, sd) ==
    LET Run(g) == strict_pass(BucketOrder(g), g, << >>, tgt, sd)
    IN  CHOOSE r \in { Run(g) : g \in { group_by_zip5(cands) } } : TRUE

\* the second pass of strict mode over what is left (lines 249-256)
leftovers_pass(fp, tgt, sd) ==
    IF Len(fp.chosen) < tgt
    THEN fill(SizeOrder(fp.by_zip5), fp.by_zip5.rows, fp.chosen, tgt, sd)
    ELSE fp.chosen

\* the greedy pass of non-strict mode (lines 257-263)
greedy_pass(cands, tgt, sd) ==
    LET Run(g) == fill(BucketOrder(g), g.rows, << >>, tgt, sd)
    IN  CHOOSE r \in { Run(g) : g \in { group_by_zip5(cands) } } : TRUE

\* the ZIP3 pass (lines 265-277) on top of chosen0
zip3_pass(cands, chosen0, tgt, sd) ==
    LET NotChosen(r) == r \notin Range(chosen0)
        Run(g) == fill(SizeOrder(g), g.rows, chosen0, tgt, sd)
    IN  IF Len(chosen0) >= tgt THEN chosen0
        ELSE CHOOSE r \in { Run(g) : g \in { group_by_zip3(SelectSeq(cands, NotChosen)) } } : TRUE

\* pick_optimized (lines 231-279); sd is the state of the random source
pick_optimized(cands, tgt, strict, sd) ==
    LET Finish(c) == Prefix(zip3_pass(cands, c, tgt, sd), tgt)
    IN  IF tgt <= 0 THEN << >>
        ELSE CHOOSE r \in { Finish(c) :
                 c \in { IF strict
                         THEN leftovers_pass(whole_tray_pass(cands, tgt, sd), tgt, sd)
                         ELSE greedy_pass(cands, tgt, sd) } } : TRUE

-----------------------------------------------------------------------------
(* Selection runs *)

InitPick ==
    /\ NoLedger
    /\ NoPlan
    /\ NoFilter
    /\ NoBuild
    /\ NoResolve
    /\ NoRace
    /\ NoPipeline
    /\ \E runs \in RunLists : candidates = RunsCandidates(runs)
    /\ target \in Targets
    /\ strict_150 \in BOOLEAN
    /\ seed \in Seeds
    /\ first_pass = << >>
    /\ chosen = << >>
    /\ picked = FALSE

\* main() calls pick_optimized (line 421)
Pick ==
    /\ ~picked
    /\ picked' = TRUE
    /\ chosen' = pick_optimized(candidates, target, strict_150, seed)
    /\ first_pass' = IF strict_150 /\ target > 0
                     THEN whole_tray_pass(candidates, target, seed).chosen
                     ELSE << >>
    /\ UNCHANGED <<candidates, target, strict_150, seed, ledgerVars, binVars, priorVars, buildVars, zipVars, raceVars, pipeVars>>

NextPick == Pick

SpecPick == InitPick /\ [][NextPick]_vars


-----------------------------------------------------------------------------
(* Claims about the selection *)

GroupSize(z5) == Cardinality({ i \in DOMAIN candidates : candidates[i].ZIP5 = z5 })

FirstCount(z5) == Cardinality({ i \in DOMAIN first_pass : first_pass[i].ZIP5 = z5 })

WholeTrays(n) == (n \div TraySize) * TraySize

\* the members of the groups order[1..p] that the first pass took
RECURSIVE FirstCountUpTo(_, _)
FirstCountUpTo(order, p) ==
    IF p = 0 THEN 0 ELSE FirstCount(order[p]) + FirstCountUpTo(order, p - 1)

\* C4: for every candidate list with distinct dedup keys, every target and
\* both modes, the selection is no longer than target, holds no dedup key
\* twice, and every selected row is a candidate row (with distinct candidate
\* rows: the selection is a sub-multiset of the candidates).
SelectionBoundedUniqueFromCandidates ==
    picked =>
        /\ Len(chosen) <= target
        /\ Cardinality({ chosen[i].key : i \in DOMAIN chosen }) = Len(chosen)
        /\ Range(chosen) \subseteq Range(candidates)

\* a strict selection that reached its target through the leftovers pass and
\* left candidates out
TargetReachedWithLeftovers ==
    /\ picked /\ strict_150
    /\ Len(chosen) = target
    /\ Len(first_pass) > 0
    /\ Len(first_pass) < Len(chosen)
    /\ Len(candidates) > target

\* C7 (as the code has it): in strict mode the first pass takes from every
\* ZIP5 group, in bucket order, min(floor(n/150)*150, room) members, room
\* being what the groups before it left of target; the other members of the
\* group enter the selection only after the first pass.
FirstPassWholeTraysWithinRoom ==
    (picked /\ strict_150 /\ target > 0) =>
        LET order == BucketOrder(group_by_zip5(candidates))
        IN  /\ \A p \in DOMAIN order :
                   FirstCount(order[p])
                       = Min(WholeTrays(GroupSize(order[p])),
                             Max(0, target - FirstCountUpTo(order, p - 1)))
            /\ first_pass = Prefix(chosen, Len(first_pass))

\* 320 candidates of one ZIP5: the first pass takes 300, the other 20 come
\* with a later pass
TwoTraysThenTwenty ==
    /\ picked /\ strict_150
    /\ \E z5 \in PickZips :
           /\ GroupSize(z5) = 2 * TraySize + 20
           /\ FirstCount(z5) = 2 * TraySize
           /\ Len(first_pass) = 2 * TraySize
           /\ Len(chosen) = 2 * TraySize + 20

\* C7 (as stated): in strict mode the first pass takes exactly
\* floor(n/150)*150 members of every ZIP5 group with n candidates.
FirstPassTakesAllWholeTrays ==
    (picked /\ strict_150 /\ target > 0) =>
        \A z5 \in PickZips : FirstCount(z5) = WholeTrays(GroupSize(z5))


-----------------------------------------------------------------------------
(* generate_letters.py, generate_envelopes_from_master.py:                 *)
(* plan_bins_by_order                                                      *)

MaxBinRuns == 3

Zip630 == <<"9", "5", "6", "3", "0">>

BinZips == { Zip630, Zip834, Zip835, NoZip }

BinRunLens == { 1, 50, TraySize - 50, TraySize }

BinRunLists == UNION { [1..n -> [z5 : BinZips, n : BinRunLens]] : n \in 0..MaxBinRuns }

\* Python's None where the code keeps a ZIP or a ZIP3
None == <<"None">>

\* the loop variables before the first letter (lines 430-440); a start of 0
\* is None, the letters being numbered from 1
BinsStart ==
    [bins |-> << >>,
     open_z3_start |-> 0, open_z3_count |-> 0, open_z3_group |-> None,
     current_5_start |-> 0, current_5_z5 |-> None,
     trays_assigned |-> [z \in BinZips |-> 0],
     piece_in_current_tray |-> [z \in BinZips |-> 0]]

Bin(start, end, type, group, count) ==
    [start |-> start, end |-> end, type |-> type, group |-> group, count |-> count]

\* lines 445-456: the ZIP3 changed under an open ZIP3 bin
CloseOnZip3Change(st, i, z3) ==
    IF st.open_z3_count > 0 /\ st.open_z3_group # None /\ z3 # st.open_z3_group
    THEN [st EXCEPT !.bins = Append(@, Bin(st.open_z3_start, i - 1, "aadc",
                                           st.open_z3_group, st.open_z3_count)),
                    !.open_z3_start = 0, !.open_z3_count = 0, !.open_z3_group = None]
    ELSE st

\* lines 459-476: the letter goes to a 5-digit tray of its ZIP5
FiveDigit(st, i, z5) ==
    LET fresh == st.current_5_start = 0 \/ st.current_5_z5 # z5
        start == IF fresh THEN i ELSE st.current_5_start
        piece == (IF fresh THEN 0 ELSE st.piece_in_current_tray[z5]) + 1
    IN  IF piece = TraySize
        THEN [st EXCEPT !.bins = Append(@, Bin(start, i, "5digit", z5, TraySize)),
                        !.trays_assigned[z5] = @ + 1,
                        !.current_5_start = 0, !.current_5_z5 = None,
                        !.piece_in_current_tray[z5] = 0]
        ELSE [st EXCEPT !.current_5_start = start, !.current_5_z5 = z5,
                        !.piece_in_current_tray[z5] = piece]

\* lines 477-493: the letter is a leftover of its ZIP3
Leftover(st, i, z3) ==
    LET start == IF st.open_z3_count = 0 THEN i ELSE st.open_z3_start
        group == IF st.open_z3_count = 0 THEN z3 ELSE st.open_z3_group
        count == st.open_z3_count + 1
    IN  IF count = TraySize
        THEN [st EXCEPT !.bins = Append(@, Bin(start, i, "3digit", z3, TraySize)),
                        !.open_z3_start = 0, !.open_z3_count = 0, !.open_z3_group = None]
        ELSE [st EXCEPT !.open_z3_start = start, !.open_z3_group = group,
                        !.open_z3_count = count]

\* one turn of the loop (lines 442-493)
Assign(st, i, z5, trays_total) ==
    IF st.trays_assigned[z5] < trays_total[z5]
    THEN FiveDigit(st, i, z5)
    ELSE Leftover(st, i, Prefix(z5, 3))

\* the loop over the letters lo..hi (line 442), halved so that the
\* evaluation stays shallow
RECURSIVE Walk(_, _, _, _, _)
Walk(st, lo, hi, zs, trays_total) ==
    IF lo > hi THEN st
    ELSE IF lo = hi
    THEN CHOOSE r \in { Assign(s1, lo, zs[lo], trays_total) :
             s1 \in { CloseOnZip3Change(st, lo, Prefix(zs[lo], 3)) } } : TRUE
    ELSE CHOOSE r \in { Walk(s1, ((lo + hi) \div 2) + 1, hi, zs, trays_total) :
             s1 \in { Walk(st, lo, (lo + hi) \div 2, zs, trays_total) } } : TRUE

\* lines 495-503: what is still open becomes the last AADC bin
CloseAtEnd(st, n) ==
    IF st.open_z3_count > 0 /\ st.open_z3_group # None
    THEN Append(st.bins, Bin(st.open_z3_start, n, "aadc", st.open_z3_group,
                             st.open_z3_count))
    ELSE st.bins

\* lines 505-507: ids in list order
WithIds(bs) ==
    [i \in DOMAIN bs |->
        [start |-> bs[i].start, end |-> bs[i].end, type |-> bs[i].type,
         group |-> bs[i].group, count |-> bs[i].count, id |-> i]]

\* plan_bins_by_order (lines 417-509)
plan_bins_by_order(zs) ==
    LET counts_z5 == [z \in BinZips |-> Cardinality({ i \in DOMAIN zs : zs[i] = z })]
        trays_total == [z \in BinZips |-> counts_z5[z] \div TraySize]
    IN  CHOOSE r \in { WithIds(CloseAtEnd(st, Len(zs))) :
                         st \in { Walk(BinsStart, 1, Len(zs), zs, trays_total) } } : TRUE

-----------------------------------------------------------------------------
(* Bin plans *)

InitBins ==
    /\ NoLedger
    /\ NoPick
    /\ NoFilter
    /\ NoBuild
    /\ NoResolve
    /\ NoRace
    /\ NoPipeline
    /\ \E runs \in BinRunLists : zips = RunsZips(runs)
    /\ bins = << >>
    /\ planned = FALSE
    /\ pages = << >>
    /\ drawn = FALSE

\* make_combined_with_bins calls plan_bins_by_order (line 527)
PlanBins ==
    /\ ~planned
    /\ planned' = TRUE
    /\ bins' = plan_bins_by_order(zips)
    /\ UNCHANGED <<zips, pages, drawn, ledgerVars, pickVars, priorVars, buildVars, zipVars, raceVars, pipeVars>>

\* generate_envelopes_from_master.py, lines 544-560 and 587-591: with bins,
\* each bin gets its separator page and then the rows start..end of the
\* input; without bins, one page per row
SeparatorPage(b) == [kind |-> "separator", n |-> b.id]

EnvelopePage(i) == [kind |-> "envelope", n |-> i]

RECURSIVE BinPages(_)
BinPages(bs) ==
    IF bs = << >> THEN << >>
    ELSE <<SeparatorPage(Head(bs))>>
         \o [x \in 1..(Head(bs).end - Head(bs).start + 1) |->
                EnvelopePage(Head(bs).start + x - 1)]
         \o BinPages(Tail(bs))

\* the Draw pages loop (lines 539-591) for n input rows
draw_pages(bs, n) ==
    IF bs # << >> THEN BinPages(bs) ELSE [x \in 1..n |-> EnvelopePage(x)]

\* main() of generate_envelopes_from_master.py with --bin-separators: the
\* planner of lines 271-362 is the one of generate_letters.py, line for line
DrawEnvelopes ==
    /\ planned
    /\ ~drawn
    /\ drawn' = TRUE
    /\ pages' = draw_pages(bins, Len(zips))
    /\ UNCHANGED <<zips, bins, planned, ledgerVars, pickVars, priorVars, buildVars, zipVars, raceVars, pipeVars>>

NextBins == PlanBins \/ DrawEnvelopes

SpecBins == InitBins /\ [][NextBins]_vars


-----------------------------------------------------------------------------
(* Claims about the bin plan *)

\* the order of characters that Python's string comparison uses,
\* for the digits and "Z"
CharRank(ch) ==
    CASE ch = "0" -> 48 [] ch = "1" -> 49 [] ch = "2" -> 50 [] ch = "3" -> 51
      [] ch = "4" -> 52 [] ch = "5" -> 53 [] ch = "6" -> 54 [] ch = "7" -> 55
      [] ch = "8" -> 56 [] ch = "9" -> 57 [] ch = "Z" -> 90
      [] ch = " " -> 32 [] ch = "-" -> 45 [] ch = "." -> 46
      [] ch = "A" -> 65 [] ch = "B" -> 66 [] ch = "C" -> 67 [] ch = "X" -> 88
      [] ch = "a" -> 97 [] ch = "b" -> 98 [] ch = "c" -> 99 [] ch = "x" -> 120
      [] ch = "O" -> 79 [] ch = "o" -> 111

\* a <= b for two texts of the same length
TextLessEq(a, b) ==
    \/ a = b
    \/ \E i \in DOMAIN a :
           /\ CharRank(a[i]) < CharRank(b[i])
           /\ \A j \in 1..(i - 1) : a[j] = b[j]

\* the ZIP part of the key by which main() sorts the selection:
\* r.get("ZIP5") or "ZZZZZ" (BuildMasterCampaignList_v4_MAILZIPFirst.py,
\* line 424)
ZipSortKey(z5) == IF z5 = NoZip THEN <<"Z", "Z", "Z", "Z", "Z">> ELSE z5

InBuildOrder(zs) ==
    \A i \in 1..(Len(zs) - 1) : TextLessEq(ZipSortKey(zs[i]), ZipSortKey(zs[i + 1]))

RECURSIVE SumCounts(_)
SumCounts(bs) == IF bs = << >> THEN 0 ELSE Head(bs).count + SumCounts(Tail(bs))

\* C5: for every list of ZIP5 values in print order, the empty list
\* included, the counts of the bins sum to the length of the list.
BinCountsSumToLength ==
    planned => SumCounts(bins) = Len(zips)

\* C6: for every list sorted ascending by ZIP5 as build sorts it, no two
\* bins share an index of their [start, end] spans, and the bins are listed
\* with ids 1..k in non-decreasing start order.
BinsDisjointInStartOrder ==
    (planned /\ InBuildOrder(zips)) =>
        /\ \A i, j \in DOMAIN bins :
               i < j => (bins[i].end < bins[j].start \/ bins[j].end < bins[i].start)
        /\ \A i \in DOMAIN bins : bins[i].id = i
        /\ \A i \in 1..(Len(bins) - 1) : bins[i].start <= bins[i + 1].start


-----------------------------------------------------------------------------
(* BuildMasterCampaignList_v4_MAILZIPFirst.py: the history filter          *)
(*                                                                         *)
(* The build run reads the ledger file that finalize wrote: its cells are  *)
(* text, CampaignCount the decimal of the count and CampaignNumbers the    *)
(* numbers joined by "|".                                                  *)

MaxPrior == 2
MaxGap == 2

DigitChars == <<"0", "1", "2", "3", "4", "5", "6", "7", "8", "9">>

IsDigit(ch) == \E d \in DOMAIN DigitChars : DigitChars[d] = ch

DigitVal(ch) == (CHOOSE d \in DOMAIN DigitChars : DigitChars[d] = ch) - 1

\* str(n) for n >= 0
RECURSIVE str(_)
str(n) ==
    IF n < 10 THEN <<DigitChars[n + 1]>>
    ELSE str(n \div 10) \o <<DigitChars[(n % 10) + 1]>>

\* "|".join(...) of the campaign numbers (finalize_or_rebuild.py, lines 278,
\* 303, 436)
RECURSIVE JoinBar(_)
JoinBar(nums) ==
    IF nums = << >> THEN << >>
    ELSE IF Len(nums) = 1 THEN str(nums[1])
    ELSE str(nums[1]) \o <<"|">> \o JoinBar(Tail(nums))

\* the ledger file as finalize and rebuild-all write it
\* (finalize_or_rebuild.py, lines 278-279, 300-303, 429-437)
TrackerFile(rows) ==
    [k \in DOMAIN rows |->
        [PropertyAddress |-> rows[k].PropertyAddress,
         OwnerName       |-> rows[k].OwnerName,
         CampaignCount   |-> str(rows[k].CampaignCount),
         CampaignNumbers |-> JoinBar(rows[k].CampaignNumbers)]]

\* read_tracker (lines 122-130): the rows of the file under their dedup key,
\* every cell stripped by read_csv_rows
read_tracker(file_rows) ==
    LET keyed == { [key |-> norm_key(file_rows[x].PropertyAddress, file_rows[x].OwnerName),
                    row |-> [PropertyAddress |-> strip(file_rows[x].PropertyAddress),
                             OwnerName       |-> strip(file_rows[x].OwnerName),
                             CampaignCount   |-> strip(file_rows[x].CampaignCount),
                             CampaignNumbers |-> strip(file_rows[x].CampaignNumbers)]] :
                   x \in DOMAIN file_rows }
    IN  CHOOSE d \in { [k \in { e.key : e \in kd } |-> (CHOOSE e \in kd : e.key = k).row] :
                       kd \in { keyed } } : TRUE

\* int(p) succeeds: p, stripped, is an unsigned decimal
IsInt(p) == strip(p) # << >> /\ \A i \in DOMAIN strip(p) : IsDigit(strip(p)[i])

RECURSIVE DecimalValue(_)
DecimalValue(ds) ==
    IF ds = << >> THEN 0
    ELSE 10 * DecimalValue(SubSeq(ds, 1, Len(ds) - 1)) + DigitVal(ds[Len(ds)])

\* int(p)
int(p) == DecimalValue(strip(p))

\* re.split(r"[|,]\s*", nums) (line 135)
RECURSIVE SplitNumbers(_, _, _)
SplitNumbers(s, part, parts) ==
    IF s = << >> THEN Append(parts, part)
    ELSE IF Head(s) \in {"|", ","}
    THEN SplitNumbers(lstrip(Tail(s)), << >>, Append(parts, part))
    ELSE SplitNumbers(Tail(s), Append(part, Head(s)), parts)

\* the first of the parsed numbers instead of the last
parse_last_campaign_number_First(info) ==
    LET ints == SelectSeq(SplitNumbers(strip(info.CampaignNumbers), << >>, << >>), IsInt)
    IN  IF strip(info.CampaignNumbers) # << >> /\ ints # << >>
        THEN int(ints[1])
        ELSE 0

\* parse_last_campaign_number (lines 132-147); the ledger has no column
\* LastCampaignNumber, so the fallback of lines 144-147 gives 0
parse_last_campaign_number(info) ==
    LET ints == SelectSeq(SplitNumbers(strip(info.CampaignNumbers), << >>, << >>), IsInt)
    IN  IF strip(info.CampaignNumbers) # << >> /\ ints # << >>
        THEN int(ints[Len(ints)])
        ELSE 0

\* a key without record passes whatever the policy asks
no_record_verdict_Pass(prior_exact, prior_max) == TRUE

\* lines 207-212: the key has no record
no_record_verdict(prior_exact, prior_max) ==
    IF prior_exact # NoneInt THEN prior_exact[1] = 0
    ELSE IF prior_max # NoneInt THEN 0 <= prior_max[1]
    ELSE TRUE

\* lines 214-228: the key has the record info
record_verdict(info, prior_exact, prior_max, min_gap, current_campaign_number) ==
    LET cnt == IF IsInt(info.CampaignCount) THEN int(info.CampaignCount) ELSE 0
        last == parse_last_campaign_number(info)
    IN  IF prior_exact # NoneInt /\ cnt # prior_exact[1] THEN FALSE
        ELSE IF prior_max # NoneInt /\ cnt > prior_max[1] THEN FALSE
        ELSE IF min_gap > 0 /\ last > 0 /\ last > current_campaign_number - min_gap
        THEN FALSE
        ELSE TRUE

\* passes_prior_rules (lines 203-228)
passes_prior_rules(k, trk, prior_exact, prior_max, min_gap, current_campaign_number) ==
    IF k \notin DOMAIN trk
    THEN no_record_verdict(prior_exact, prior_max)
    ELSE record_verdict(trk[k], prior_exact, prior_max, min_gap, current_campaign_number)

-----------------------------------------------------------------------------
(* The history filter on the ledgers that finalize leaves *)

KeyCX == norm_key(AddrC, OwnerX)
KeyYX == norm_key(<<"y">>, OwnerX)

PriorKeys == { KeyAB, KeyCX, KeyYX }

OptionalInts == { NoneInt } \cup { <<n>> : n \in (-1)..MaxPrior }

\* main() ends the run when --prior-exact and --prior-max are both given
\* (lines 342-344)
Policies ==
    { pol \in [prior_exact : OptionalInts, prior_max : OptionalInts,
               min_gap : 0..MaxGap, campaign_number : 1..(MaxCampaign + 1)] :
        pol.prior_exact = NoneInt \/ pol.prior_max = NoneInt }

\* the files after a finalize run of campaign c1 and one of campaign c2
AfterTwoRuns(c1, m1, c2, m2) ==
    append_executed_and_update_tracker(
        append_executed_and_update_tracker(
            [logs |-> [c \in Campaigns |-> << >>], tracker |-> EmptyMap,
             tally |-> EmptyMap, marker |-> [c \in Campaigns |-> FALSE], found |-> FALSE],
            c1, m1, FALSE, FALSE, FALSE, MasterIndex[c1], 1),
        c2, m2, FALSE, FALSE, FALSE, MasterIndex[c2], 1)

InitPrior ==
    /\ \E c1, c2 \in Campaigns, m1, m2 \in Mappings :
           \E st \in { AfterTwoRuns(c1, m1, c2, m2) } :
               /\ logs = st.logs
               /\ tracker = st.tracker
               /\ tally = st.tally
               /\ marker = st.marker
    /\ master = MasterIndex
    /\ today = 1
    /\ rebuilt = FALSE
    /\ lastRun = [op |-> "none", c |-> 0, added |-> 0]
    /\ NoPick
    /\ NoPlan
    /\ NoBuild
    /\ NoResolve
    /\ NoRace
    /\ NoPipeline
    /\ lead \in PriorKeys
    /\ policy \in Policies
    /\ verdict = FALSE
    /\ filtered = FALSE

\* process_rows asks the filter about one key (line 378)
FilterKey ==
    /\ ~filtered
    /\ filtered' = TRUE
    /\ verdict' = passes_prior_rules(lead, read_tracker(TrackerFile(tracker)),
                                     policy.prior_exact, policy.prior_max,
                                     policy.min_gap, policy.campaign_number)
    /\ UNCHANGED <<lead, policy, ledgerVars, pickVars, binVars, buildVars, zipVars, raceVars, pipeVars>>

NextPrior == FilterKey

SpecPrior == InitPrior /\ [][NextPrior]_vars

-----------------------------------------------------------------------------
(* Claims about the history filter *)

\* the largest entry of a ledger record's CampaignNumbers, 0 if it has none
MaxNumber(rec) ==
    IF rec.CampaignNumbers = << >> THEN 0
    ELSE CHOOSE x \in Range(rec.CampaignNumbers) :
             \A y \in Range(rec.CampaignNumbers) : y <= x

\* C9: for a key with a ledger record, cnt its CampaignCount and last the
\* maximum of its CampaignNumbers, the filter returns false exactly when
\* (priorExact is set and cnt # priorExact) or (priorMax is set and
\* cnt > priorMax) or (minGap > 0 and last > 0 and
\* last > currentCampaignNumber - minGap).
RecordVerdictAsStated ==
    (filtered /\ lead \in DOMAIN tracker) =>
        LET cnt == tracker[lead].CampaignCount
            last == MaxNumber(tracker[lead])
        IN  verdict = ~ \/ policy.prior_exact # NoneInt /\ cnt # policy.prior_exact[1]
                        \/ policy.prior_max # NoneInt /\ cnt > policy.prior_max[1]
                        \/ /\ policy.min_gap > 0
                           /\ last > 0
                           /\ last > policy.campaign_number - policy.min_gap

\* priorExact = 0 and a record with CampaignCount = 1: filtered out
MailedOnceDroppedByExactZero ==
    /\ filtered
    /\ lead \in DOMAIN tracker
    /\ tracker[lead].CampaignCount = 1
    /\ policy.prior_exact = <<0>>
    /\ verdict = FALSE

\* C10: a key without ledger record gets the verdict of a record with
\* CampaignCount = 0 and no campaign numbers: it passes iff (priorExact is
\* unset or 0) and (priorMax is unset or >= 0), whatever minGap and the
\* current campaign number are.
NoRecordIsZeroPrior ==
    (filtered /\ lead \notin DOMAIN tracker) =>
        /\ verdict = /\ (policy.prior_exact = NoneInt \/ policy.prior_exact = <<0>>)
                     /\ (policy.prior_max = NoneInt \/ policy.prior_max[1] >= 0)
        /\ verdict = record_verdict([CampaignCount |-> str(0), CampaignNumbers |-> << >>],
                                    policy.prior_exact, policy.prior_max,
                                    policy.min_gap, policy.campaign_number)

\* a never-mailed key passes a policy with a minimum gap
NeverMailedPassesGap ==
    /\ filtered
    /\ lead \notin DOMAIN tracker
    /\ tracker # EmptyMap
    /\ policy.min_gap > 0
    /\ policy.prior_max = <<0>>
    /\ verdict = TRUE


-----------------------------------------------------------------------------
(* BuildMasterCampaignList_v4_MAILZIPFirst.py: ingestion                   *)
(*                                                                         *)
(* A source row is a function from column names to text cells.             *)

MaxSourceRows == 3

MaxMandatoryLists == 4
MaxOptionalLists == 2

\* the first column of cols that the row holds with a non-blank cell,
\* stripped; no text if there is none
RECURSIVE FirstFilled(_, _)
FirstFilled(row, cols) ==
    IF cols = << >> THEN NoText
    ELSE IF Head(cols) \in DOMAIN row /\ strip(row[Head(cols)]) # NoText
    THEN strip(row[Head(cols)])
    ELSE FirstFilled(row, Tail(cols))

\* k.lower() for the column names of the source rows
LowerName(col) ==
    CASE col \in {"Address", "ADDRESS", "address"} -> "address"
      [] col \in {"Owner", "OWNER", "owner"} -> "owner"
      [] OTHER -> col

\* row[lmap[name]] if a column lower-cases to name (lines 153, 164, 193)
ByLowerName(row, name) ==
    IF \E c \in DOMAIN row : LowerName(c) = name
    THEN row[CHOOSE c \in DOMAIN row : LowerName(c) = name]
    ELSE NoText

addr_candidates ==
    <<"PropertyAddress", "PROPERTY ADDRESS", "PROPERTY_ADDRESS",
      "SITUS ADDRESS", "SITUS_ADDRESS", "SITUS",
      "MAILING ADDRESS", "MAILING_ADDRESS",
      "ADDRESS", "ADDRESS 1", "ADDRESS1", "STREET ADDRESS",
      "Situs Address", "Mailing Address", "Property Address">>

owner_candidates ==
    <<"OwnerName", "OWNER NAME", "OWNER", "OWNER(S)", "OWNER 1", "OWNER1",
      "OWNER NAME 1", "Primary Name", "PRIMARY NAME", "Mail Owner", "OWNER NAME(S)">>

first_last_columns ==
    <<<<"Primary First", "Primary Last">>, <<"PRIMARY FIRST", "PRIMARY LAST">>,
      <<"Owner First", "Owner Last">>, <<"OWNER FIRST", "OWNER LAST">>,
      <<"First Name", "Last Name">>, <<"FIRST NAME", "LAST NAME">>>>

\* lines 174-187: the owner from a first-name and a last-name column
RECURSIVE FirstAndLast(_, _)
FirstAndLast(row, pairs) ==
    IF pairs = << >> THEN NoText
    ELSE LET f == strip(MapGet(row, Head(pairs)[1], NoText))
             l == strip(MapGet(row, Head(pairs)[2], NoText))
         IN  IF f # NoText \/ l # NoText
             THEN norm_space(f \o <<" ">> \o l)
             ELSE FirstAndLast(row, Tail(pairs))

\* detect_addr_owner_from_source_row (lines 150-195)
detect_addr_owner_from_source_row(row) ==
    LET addr1 == FirstFilled(row, addr_candidates)
        own1 == FirstFilled(row, owner_candidates)
        own2 == IF own1 # NoText THEN own1 ELSE FirstAndLast(row, first_last_columns)
    IN  [addr |-> IF addr1 # NoText THEN addr1 ELSE ByLowerName(row, "address"),
         own  |-> IF own2 # NoText THEN own2 ELSE strip(ByLowerName(row, "owner"))]

\* re.sub(r"\.0$", "", s) (line 33)
DropDotZero(s) ==
    IF Len(s) >= 2 /\ s[Len(s) - 1] = "." /\ s[Len(s)] = "0"
    THEN SubSeq(s, 1, Len(s) - 2)
    ELSE s

\* (\d{5})(?:-\d{4})?$ matches at position i of s (line 34)
ZipMatchAt(s, i) ==
    /\ i + 4 <= Len(s)
    /\ \A j \in i..(i + 4) : IsDigit(s[j])
    /\ \/ i + 4 = Len(s)
       \/ /\ i + 9 = Len(s)
          /\ s[i + 5] = "-"
          /\ \A j \in (i + 6)..(i + 9) : IsDigit(s[j])

\* get_zip5_from_text (lines 29-35): the leftmost match
get_zip5_from_text(txt) ==
    LET s == DropDotZero(strip(txt))
    IN  IF \E i \in DOMAIN s : ZipMatchAt(s, i)
        THEN LET m == CHOOSE i \in DOMAIN s :
                          ZipMatchAt(s, i) /\ \A j \in 1..(i - 1) : ~ZipMatchAt(s, j)
             IN  SubSeq(s, m, m + 4)
        ELSE NoZip

\* the columns in the order of a resolution that prefers the ZIP of the
\* property: situs ZIP, generic ZIP, mailing and owner ZIP, mailing address
zip_columns_SitusFirst ==
    <<"SITUS ZIP", "SITUS ZIP CODE", "SITUS ZIP CODE 5-DIGIT", "SITUS ZIP5",
      "Situs ZIP", "Situs Zip Code",
      "ZIP5", "Zip5", "ZIP", "Zip", "Zip Code", "ZIP CODE", "ZIP CODE 5",
      "Mail ZIP", "MAIL ZIP", "Mail Zip", "Mail Zip Code", "MAIL ZIP CODE",
      "MAIL ZIP5", "Mail ZIP5", "MAILING ZIP", "MAILING ZIP CODE", "MAILING ZIP5",
      "Owner ZIP", "OWNER ZIP", "Owner Zip", "OWNER ZIP5", "Owner ZIP5",
      "MAILING ADDRESS", "Mailing Address", "Mailing Address 1", "Mailing Address1",
      "OWNER ADDRESS", "Owner Address", "OWNER MAILING ADDRESS", "Owner Mailing Address">>

\* the columns get_zip5_from_row tries, in its order (lines 47-84):
\* mailing and owner ZIP, mailing and owner address, generic ZIP, situs ZIP
zip_columns ==
    <<"Mail ZIP", "MAIL ZIP", "Mail Zip", "Mail Zip Code", "MAIL ZIP CODE",
      "MAIL ZIP5", "Mail ZIP5", "MAILING ZIP", "MAILING ZIP CODE", "MAILING ZIP5",
      "Owner ZIP", "OWNER ZIP", "Owner Zip", "OWNER ZIP5", "Owner ZIP5",
      "MAILING ADDRESS", "Mailing Address", "Mailing Address 1", "Mailing Address1",
      "OWNER ADDRESS", "Owner Address", "OWNER MAILING ADDRESS", "Owner Mailing Address",
      "ZIP5", "Zip5", "ZIP", "Zip", "Zip Code", "ZIP CODE", "ZIP CODE 5",
      "SITUS ZIP", "SITUS ZIP CODE", "SITUS ZIP CODE 5-DIGIT", "SITUS ZIP5",
      "Situs ZIP", "Situs Zip Code">>

\* the first column that yields a ZIP5
RECURSIVE FirstZip(_, _)
FirstZip(row, cols) ==
    IF cols = << >> THEN NoZip
    ELSE IF /\ Head(cols) \in DOMAIN row
            /\ strip(row[Head(cols)]) # NoText
            /\ get_zip5_from_text(row[Head(cols)]) # NoZip
    THEN get_zip5_from_text(row[Head(cols)])
    ELSE FirstZip(row, Tail(cols))

\* get_zip5_from_row (lines 37-91)
get_zip5_from_row(row, addr) ==
    IF FirstZip(row, zip_columns) # NoZip THEN FirstZip(row, zip_columns)
    ELSE get_zip5_from_text(addr)

\* read_csv_rows (lines 95-98): every cell stripped
read_csv_rows(file) ==
    [i \in DOMAIN file |-> [c \in DOMAIN file[i] |-> strip(file[i][c])]]

\* a row is never taken for seen
already_seen_Never(k, seen) == FALSE

\* k in seen_keys (line 374)
already_seen(k, seen) == k \in seen

Count(st, bucket, what) == [st EXCEPT !.stats[bucket][what] = @ + 1]

\* lines 373-391: a row with address and owner
process_keyed(st, r, addr, own, k, bucket, trk, pol) ==
    IF already_seen(k, st.seen_keys) THEN Count(st, bucket, "deduped")
    ELSE IF ~passes_prior_rules(k, trk, pol.prior_exact, pol.prior_max, pol.min_gap, pol.campaign_number)
    THEN Count(st, bucket, "dropped_prior")
    ELSE [Count(st, bucket, "kept") EXCEPT
             !.all_candidates = Append(@, [PropertyAddress |-> norm_space(addr),
                                           OwnerName |-> norm_space(own),
                                           ZIP5 |-> get_zip5_from_row(r, addr),
                                           src_row |-> r]),
             !.seen_keys = @ \cup {k}]

\* one turn of the loop of process_rows (lines 365-391)
process_row(st, r, bucket, trk, pol) ==
    LET Keyed(d) ==
            IF d.addr = NoText THEN Count(st, bucket, "missing_addr")
            ELSE IF d.own = NoText THEN Count(st, bucket, "missing_owner")
            ELSE CHOOSE x \in { process_keyed(st, r, d.addr, d.own, k, bucket, trk, pol) :
                                  k \in { norm_key(d.addr, d.own) } } : TRUE
    IN  CHOOSE x \in { Keyed(d) : d \in { detect_addr_owner_from_source_row(r) } } : TRUE

\* process_rows (lines 364-391)
RECURSIVE process_rows(_, _, _, _, _)
process_rows(st, rows, bucket, trk, pol) ==
    IF rows = << >> THEN st
    ELSE CHOOSE x \in { process_rows(s1, Tail(rows), bucket, trk, pol) :
                          s1 \in { process_row(st, Head(rows), bucket, trk, pol) } } : TRUE

-----------------------------------------------------------------------------
(* Build runs: ingestion *)

ZipText834 == <<"9", "5", "8", "3", "4", ".", "0">>

SrcAB     == ("PropertyAddress" :> AddrAB @@ "OwnerName" :> OwnerX @@ "Mail ZIP" :> Zip835)
SrcAB2    == ("ADDRESS" :> AddrAB2 @@ "OWNER NAME" :> OwnerX2 @@ "ZIP" :> ZipText834)
SrcAB3    == ("Address" :> AddrAB @@ "Primary First" :> <<" ">> \o OwnerX @@ "Primary Last" :> NoText)
SrcCX     == ("PropertyAddress" :> AddrC @@ "OwnerName" :> OwnerX @@ "SITUS ZIP" :> Zip630)
SrcNoOwn  == ("PropertyAddress" :> AddrC @@ "OwnerName" :> NoText)
SrcNoAddr == ("OwnerName" :> OwnerX)

SourceRows == { SrcAB, SrcAB2, SrcAB3, SrcCX, SrcNoOwn, SrcNoAddr }

\* source files of 0..n rows
SourceFiles(n) == UNION { [1..k -> SourceRows] : k \in 0..n }

\* no filter (campaign 1, whose folder holds a log, built once more), never
\* mailed before, at most one campaign and a gap of one, and --prior-exact
\* together with --prior-max
BuildPolicies ==
    { [prior_exact |-> NoneInt, prior_max |-> NoneInt, min_gap |-> 0, campaign_number |-> 1],
      [prior_exact |-> <<0>>, prior_max |-> NoneInt, min_gap |-> 0, campaign_number |-> 2],
      [prior_exact |-> NoneInt, prior_max |-> <<1>>, min_gap |-> 1, campaign_number |-> 2],
      [prior_exact |-> <<0>>, prior_max |-> <<1>>, min_gap |-> 0, campaign_number |-> 2] }

\* --mandatory (nargs="+") and --optional (nargs="*"): one entry per path,
\* TRUE for a path that exists
MandatoryArgs ==
    { <<TRUE>>, <<TRUE, TRUE>>, <<TRUE, FALSE>>,
      [i \in 1..(MaxMandatoryLists + 1) |-> TRUE] }

OptionalArgs ==
    { << >>, <<FALSE>>,
      [i \in 1..MaxOptionalLists |-> TRUE], [i \in 1..(MaxOptionalLists + 1) |-> TRUE] }

\* the files main() writes into the campaign folder (lines 439-457, 543)
build_files_AndLog ==
    { "campaign_master.csv", "presort_report.csv", "presort_zip3_summary.csv",
      "postage_estimate.csv", "executed_campaign_log.csv" }

build_files ==
    { "campaign_master.csv", "presort_report.csv", "presort_zip3_summary.csv",
      "postage_estimate.csv" }

\* a < b as Python compares two strings
TextLess(a, b) ==
    \E i \in 1..(Min(Len(a), Len(b)) + 1) :
        /\ \A j \in 1..(i - 1) : a[j] = b[j]
        /\ \/ i > Len(a) /\ i <= Len(b)
           \/ i <= Len(a) /\ i <= Len(b) /\ CharRank(a[i]) < CharRank(b[i])

\* the sort key of line 424 of row a is below that of row b
SortKeyLess(a, b) ==
    \/ TextLess(ZipSortKey(a.ZIP5), ZipSortKey(b.ZIP5))
    \/ /\ a.ZIP5 = b.ZIP5
       /\ \/ TextLess(a.PropertyAddress, b.PropertyAddress)
          \/ a.PropertyAddress = b.PropertyAddress /\ TextLess(a.OwnerName, b.OwnerName)

\* row r put into the sorted list rows, behind the rows that are not above it
RECURSIVE InsertSorted(_, _)
InsertSorted(rows, r) ==
    IF rows = << >> THEN <<r>>
    ELSE IF SortKeyLess(r, Head(rows)) THEN <<r>> \o rows
    ELSE <<Head(rows)>> \o InsertSorted(Tail(rows), r)

\* chosen.sort(key=...) (line 424): a stable sort
RECURSIVE sort_chosen(_)
sort_chosen(rows) ==
    IF rows = << >> THEN << >>
    ELSE InsertSorted(sort_chosen(SubSeq(rows, 1, Len(rows) - 1)), rows[Len(rows)])

RECURSIVE RowsRead(_)
RowsRead(srcs) == IF srcs = << >> THEN << >> ELSE Head(srcs).rows \o RowsRead(Tail(srcs))

ListsRead(bucket) == Cardinality({ i \in DOMAIN sources : sources[i].bucket = bucket })

\* the ledger holds campaign 1, mailed to (c, x); build starts with its
\* command line
InitBuild ==
    /\ \E st \in { AfterTwoRuns(1, <<RowC>>, 1, << >>) } :
           /\ logs = st.logs
           /\ tracker = st.tracker
           /\ tally = st.tally
           /\ marker = st.marker
    /\ master = MasterIndex
    /\ today = 1
    /\ rebuilt = FALSE
    /\ lastRun = [op |-> "none", c |-> 0, added |-> 0]
    /\ NoPick
    /\ NoPlan
    /\ lead = << >>
    /\ policy \in BuildPolicies
    /\ verdict = FALSE
    /\ filtered = FALSE
    /\ phase = "args"
    /\ target_size \in { 1, MaxSourceRows }
    /\ sources = << >>
    /\ seen_keys = {}
    /\ all_candidates = << >>
    /\ stats = NoStats
    /\ mandatory \in MandatoryArgs
    /\ optional \in OptionalArgs
    /\ exit_code = NoneInt
    /\ camp_dir = FALSE
    /\ outputs = {}
    /\ NoResolve
    /\ NoRace
    /\ NoPipeline

\* sys.exit(1), and the end of the run by an exception nobody catches
Exit1 ==
    /\ phase' = "exit"
    /\ exit_code' = <<1>>

\* only the test of the two prior flags
bad_args_PriorsOnly ==
    policy.prior_exact # NoneInt /\ policy.prior_max # NoneInt

\* the tests of the command line (lines 342-350)
bad_args ==
    \/ policy.prior_exact # NoneInt /\ policy.prior_max # NoneInt
    \/ Len(mandatory) > MaxMandatoryLists
    \/ Len(optional) > MaxOptionalLists

\* main() up to the first source file (lines 341-362)
ParseArgs ==
    /\ phase = "args"
    /\ IF bad_args
       THEN Exit1
       ELSE phase' = "mandatory" /\ exit_code' = exit_code
    /\ UNCHANGED <<target_size, sources, seen_keys, all_candidates, stats, mandatory,
                   optional, camp_dir, outputs, ledgerVars, pickVars, binVars, priorVars, zipVars, raceVars, pipeVars>>

\* process_rows over the rows of the file, into seen_keys, all_candidates
\* and stats
Ingest(file, bucket) ==
    \E st \in { process_rows([seen_keys |-> seen_keys, all_candidates |-> all_candidates, stats |-> stats],
                             read_csv_rows(file), bucket,
                             read_tracker(TrackerFile(tracker)), policy) } :
        /\ seen_keys' = st.seen_keys
        /\ all_candidates' = st.all_candidates
        /\ stats' = st.stats
        /\ sources' = Append(sources, [bucket |-> bucket, rows |-> file])

\* the loop over args.mandatory reads one file (lines 394-398)
ReadMandatory(file) ==
    /\ phase = "mandatory"
    /\ ListsRead("MAND") < Len(mandatory)
    /\ mandatory[ListsRead("MAND") + 1]
    /\ Ingest(file, "MAND")
    /\ UNCHANGED <<phase, target_size, mandatory, optional, exit_code, camp_dir, outputs,
                   ledgerVars, pickVars, binVars, priorVars, zipVars, raceVars, pipeVars>>

\* open() of read_csv_rows raises for a path that does not exist (lines 96,
\* 395); nothing catches it
MissingMandatory ==
    /\ phase = "mandatory"
    /\ ListsRead("MAND") < Len(mandatory)
    /\ ~mandatory[ListsRead("MAND") + 1]
    /\ Exit1
    /\ UNCHANGED <<target_size, sources, seen_keys, all_candidates, stats, mandatory,
                   optional, camp_dir, outputs, ledgerVars, pickVars, binVars, priorVars, zipVars, raceVars, pipeVars>>

\* the safety test after the mandatory files (lines 400-404)
CheckMandatory ==
    /\ phase = "mandatory"
    /\ ListsRead("MAND") = Len(mandatory)
    /\ IF stats["MAND"].kept > target_size
       THEN Exit1
       ELSE phase' = "optional" /\ exit_code' = exit_code
    /\ UNCHANGED <<target_size, sources, seen_keys, all_candidates, stats, mandatory,
                   optional, camp_dir, outputs, ledgerVars, pickVars, binVars, priorVars, zipVars, raceVars, pipeVars>>

\* the loop over args.optional reads one file (lines 407-411)
ReadOptional(file) ==
    /\ phase = "optional"
    /\ ListsRead("POOL") < Len(optional)
    /\ optional[ListsRead("POOL") + 1]
    /\ Ingest(file, "POOL")
    /\ UNCHANGED <<phase, target_size, mandatory, optional, exit_code, camp_dir, outputs,
                   ledgerVars, pickVars, binVars, priorVars, zipVars, raceVars, pipeVars>>

\* open() of read_csv_rows raises for a path that does not exist (lines 96,
\* 408); nothing catches it
MissingOptional ==
    /\ phase = "optional"
    /\ ListsRead("POOL") < Len(optional)
    /\ ~optional[ListsRead("POOL") + 1]
    /\ Exit1
    /\ UNCHANGED <<target_size, sources, seen_keys, all_candidates, stats, mandatory,
                   optional, camp_dir, outputs, ledgerVars, pickVars, binVars, priorVars, zipVars, raceVars, pipeVars>>

\* the selection and its sort (lines 421-424); strict is --strict-150 and
\* sd the state of the random source
Select(strict, sd) ==
    /\ phase = "optional"
    /\ ListsRead("POOL") = Len(optional)
    /\ phase' = "selected"
    /\ chosen' = sort_chosen(pick_optimized(all_candidates, target_size, strict, sd))
    /\ picked' = TRUE
    /\ UNCHANGED <<candidates, target, strict_150, seed, first_pass,
                   target_size, sources, seen_keys, all_candidates, stats, mandatory,
                   optional, exit_code, camp_dir, outputs, ledgerVars, binVars, priorVars, zipVars, raceVars, pipeVars>>

\* write_csv(path, rows, headers) opens the file for writing: a log of that
\* name in the campaign folder would be left with the header alone
logs_after_write(lg, names, c) ==
    IF "executed_campaign_log.csv" \in names /\ c \in DOMAIN lg
    THEN [lg EXCEPT ![c] = << >>]
    ELSE lg

\* the campaign folder and the files in it (lines 437-543), and the end of
\* main()
WriteOutputs ==
    /\ phase = "selected"
    /\ phase' = "done"
    /\ exit_code' = <<0>>
    /\ camp_dir' = TRUE
    /\ outputs' = build_files
    /\ logs' = logs_after_write(logs, build_files, policy.campaign_number)
    /\ UNCHANGED <<target_size, sources, seen_keys, all_candidates, stats, mandatory,
                   optional, tracker, tally, marker, master, today, rebuilt, lastRun,
                   pickVars, binVars, priorVars, zipVars, raceVars, pipeVars>>

NextBuild ==
    \/ ParseArgs
    \/ \E file \in SourceFiles(MaxSourceRows - Len(RowsRead(sources))) : ReadMandatory(file)
    \/ MissingMandatory
    \/ CheckMandatory
    \/ \E file \in SourceFiles(MaxSourceRows - Len(RowsRead(sources))) : ReadOptional(file)
    \/ MissingOptional
    \/ \E strict \in BOOLEAN, sd \in Seeds : Select(strict, sd)
    \/ WriteOutputs

SpecBuild == InitBuild /\ [][NextBuild]_vars


-----------------------------------------------------------------------------
(* Ingestion: first seen wins *)

\* the dedup key of a source row as process_rows computes it; << >> for a
\* row without address or owner
KeyOfRow(r) ==
    LET d == detect_addr_owner_from_source_row(r)
    IN  IF d.addr = NoText \/ d.own = NoText THEN << >>
        ELSE <<norm_key(d.addr, d.own)>>

\* every row read so far, in reading order, with its bucket and key
RECURSIVE History(_)
History(srcs) ==
    IF srcs = << >> THEN << >>
    ELSE [i \in DOMAIN Head(srcs).rows |->
             [bucket |-> Head(srcs).bucket,
              row |-> read_csv_rows(Head(srcs).rows)[i],
              key |-> KeyOfRow(read_csv_rows(Head(srcs).rows)[i])]]
         \o History(Tail(srcs))

CandidateKey(c) == norm_key(c.PropertyAddress, c.OwnerName)

\* the rows of history h that repeat the key of an earlier row
Repeats(h) ==
    { n \in DOMAIN h : h[n].key # << >> /\ \E m \in 1..(n - 1) : h[m].key = h[n].key }

AtMostOneCandidatePerKey ==
    \A i, j \in DOMAIN all_candidates :
        i # j => CandidateKey(all_candidates[i]) # CandidateKey(all_candidates[j])

CandidateIsFirstRowOfKey(h) ==
    \A i \in DOMAIN all_candidates :
        \E n \in DOMAIN h :
            /\ h[n].key = <<CandidateKey(all_candidates[i])>>
            /\ h[n].row = all_candidates[i].src_row
            /\ n \notin Repeats(h)

\* C8 (as amended): within one build run, over the mandatory files in order
\* and then the optional files, every dedup key has at most one candidate;
\* the candidate is the first row read with that key; the seen keys are
\* exactly the keys of the candidates; and each bucket's deduped count is the
\* number of its rows that repeat the key of a candidate.  A key the history
\* filter rejects is never seen: its repeats count as dropped_prior.
FirstSeenWinsAcrossSources ==
    \E h \in { History(sources) } :
        /\ AtMostOneCandidatePerKey
        /\ CandidateIsFirstRowOfKey(h)
        /\ seen_keys = { CandidateKey(all_candidates[i]) : i \in DOMAIN all_candidates }
        /\ \A b \in {"MAND", "POOL"} :
               stats[b].deduped =
                   Cardinality({ n \in Repeats(h) : h[n].bucket = b /\ h[n].key[1] \in seen_keys })

\* three one-row lists of three layouts share a key: one candidate, two
\* rows deduped
ThreeListsOneCandidate ==
    /\ Len(sources) = 3
    /\ \A i \in DOMAIN sources : Len(sources[i].rows) = 1
    /\ { sources[i].rows[1] : i \in DOMAIN sources } = { SrcAB, SrcAB2, SrcAB3 }
    /\ Len(all_candidates) = 1
    /\ stats["MAND"].deduped + stats["POOL"].deduped = 2

\* C8 as stated: every row that repeats the key of an earlier row is counted
\* as deduped, whatever became of the earlier row
EveryLaterRowCountsAsDeduped ==
    \E h \in { History(sources) } :
        /\ AtMostOneCandidatePerKey
        /\ CandidateIsFirstRowOfKey(h)
        /\ \A b \in {"MAND", "POOL"} :
               stats[b].deduped = Cardinality({ n \in Repeats(h) : h[n].bucket = b })


-----------------------------------------------------------------------------
(* Build runs: errors and effects *)

BothPriorFlags == policy.prior_exact # NoneInt /\ policy.prior_max # NoneInt

TooManyLists == Len(mandatory) > 4 \/ Len(optional) > 2

Oversubscribed == stats["MAND"].kept > target_size

\* C11: a build run with both prior flags, with more than 4 mandatory or
\* more than 2 optional sources never gets to read a source; a run whose
\* mandatory survivors exceed the target never gets past the mandatory
\* sources; and a run that ended that way has exit status 1, no campaign
\* folder and no output file.
ConfigErrorsFailFast ==
    /\ (BothPriorFlags \/ TooManyLists) => phase \in {"args", "exit"}
    /\ Oversubscribed => phase \in {"mandatory", "exit"}
    /\ phase = "exit" => exit_code = <<1>> /\ ~camp_dir /\ outputs = {}

\* two mandatory survivors for a target of one end the run without output
OversubscribedRunEnded ==
    /\ phase = "exit"
    /\ ~BothPriorFlags
    /\ ~TooManyLists
    /\ Oversubscribed
    /\ exit_code = <<1>>
    /\ outputs = {}

\* C12: a build run ends early only for a configuration error or a missing
\* mandatory source; with every mandatory source read and no configuration
\* error the run goes on to its outputs, a missing optional source being
\* skipped.
MissingOptionalIsSkipped ==
    (phase = "exit" /\ ~BothPriorFlags /\ ~TooManyLists /\ ~Oversubscribed)
        => ListsRead("MAND") < Len(mandatory)

\* C17: no step of a build run, whether the run succeeds or aborts, changes
\* the ledger or an executed log.
BuildLeavesLedgerAlone == [][UNCHANGED <<tracker, logs>>]_vars

\* a build of campaign 1 has written its files next to the log of campaign 1
BuiltBesideLog ==
    /\ phase = "done"
    /\ outputs = build_files
    /\ policy.campaign_number = 1
    /\ logs[1] # << >>
    /\ DOMAIN tracker # {}


-----------------------------------------------------------------------------
(* The ledger: template sequences, tally, append-only logs *)

\* the rows of the log of campaign c whose key is k
LogRowsOfKey(lg, c, k) ==
    LET OfKey(r) == norm_key(r.PropertyAddress, r.OwnerName) = k
    IN  SelectSeq(lg[c], OfKey)

RECURSIVE SumOver(_, _)
SumOver(f, S) ==
    IF S = {} THEN 0
    ELSE LET x == CHOOSE y \in S : TRUE IN f[x] + SumOver(f, S \ {x})

\* the number of log rows of key k that carry a template
TemplatesLogged(lg, k) ==
    SumOver([c \in DOMAIN lg |-> Len(NonEmptyTemplates(LogRowsOfKey(lg, c, k)))], DOMAIN lg)

RowsWithZip(lg, z) ==
    SumOver([c \in DOMAIN lg |-> Cardinality({ i \in DOMAIN lg[c] : lg[c][i].ZIP5 = z })],
            DOMAIN lg)

LoggedZips(lg) == UNION { { lg[c][i].ZIP5 : i \in DOMAIN lg[c] } : c \in DOMAIN lg }

\* C14: after a finalize run that wrote, and after a rebuild-all, the tally
\* has an entry exactly for the non-empty ZIP5 values of the executed logs,
\* and its Count is the number of log rows with that ZIP5 over all logs.
TallyCountsLogRows ==
    lastRun.op \in {"finalize", "rebuild"} =>
        /\ DOMAIN tally = LoggedZips(logs) \ {""}
        /\ \A z \in DOMAIN tally : tally[z] = RowsWithZip(logs, z)

\* one ZIP5 logged once in each of two campaigns
TallyOverTwoLogs ==
    /\ lastRun.op = "finalize"
    /\ \E z \in DOMAIN tally :
           /\ tally[z] = 2
           /\ \A c \in Campaigns : \E i \in DOMAIN logs[c] : logs[c][i].ZIP5 = z


\* C18: a finalize or rebuild-all run leaves the rows that a campaign's
\* executed log held before the run in place, unchanged and in order, as a
\* prefix of the log after the run.
LogsAreAppendOnly ==
    [][\A c \in Campaigns :
          /\ Len(logs'[c]) >= Len(logs[c])
          /\ SubSeq(logs'[c], 1, Len(logs[c])) = logs[c]]_vars

\* a run added a row behind a row that an earlier run had logged
RowAppendedBehindOldRow ==
    /\ lastRun.op = "finalize"
    /\ lastRun.added = 1
    /\ Len(logs[lastRun.c]) = 2

\* TemplateIds and ZIP5 of every record
TemplateZipView(rows) ==
    [k \in DOMAIN rows |-> <<rows[k].TemplateIds, rows[k].ZIP5>>]

\* C19: as long as the ledger has only been maintained by finalize runs, a
\* rebuild-all over the executed logs gives every key that both ledgers hold
\* the same TemplateIds, in the same order, and the same ZIP5 as the
\* incrementally maintained ledger holds.
RebuildKeepsTemplatesAndZip ==
    ~rebuilt =>
        \E rb \in { TemplateZipView(rebuild_tracker_from_all(Files, FALSE, master).tracker) } :
            \A k \in DOMAIN tracker \cap DOMAIN rb :
                rb[k] = TemplateZipView(tracker)[k]

-----------------------------------------------------------------------------
(* BuildMasterCampaignList_v4_MAILZIPFirst.py: estimate_postage            *)
(*                                                                         *)
(* The piece counts of the estimate, from the ZIP5 column of the selection *)

\* collections.Counter over the values of zs
Counter(zs) ==
    [z \in Range(zs) |-> Cardinality({ i \in DOMAIN zs : zs[i] = z })]

\* an estimate that sends every leftover piece to AADC
estimate_postage_NoZip3(zs) ==
    LET by_zip5 == Counter(zs)
        five == SumOver([z \in DOMAIN by_zip5 |-> (by_zip5[z] \div TraySize) * TraySize],
                        DOMAIN by_zip5)
    IN  [five_digit |-> five, three_digit |-> 0, aadc |-> Len(zs) - five]

\* estimate_postage (lines 282-299)
estimate_postage(zs) ==
    LET by_zip5 == Counter(zs)
        rem == [z \in DOMAIN by_zip5 |-> by_zip5[z] - (by_zip5[z] \div TraySize) * TraySize]
        zip3s == { Prefix(z, 3) : z \in DOMAIN by_zip5 }
        leftovers_by_zip3 ==
            [z3 \in zip3s |->
                SumOver(rem, { z \in DOMAIN by_zip5 : Prefix(z, 3) = z3 })]
    IN  [five_digit  |-> SumOver([z \in DOMAIN by_zip5 |->
                                     (by_zip5[z] \div TraySize) * TraySize], DOMAIN by_zip5),
         three_digit |-> SumOver([z3 \in zip3s |->
                                     (leftovers_by_zip3[z3] \div TraySize) * TraySize], zip3s),
         aadc        |-> SumOver([z3 \in zip3s |->
                                     leftovers_by_zip3[z3]
                                       - (leftovers_by_zip3[z3] \div TraySize) * TraySize],
                                 zip3s)]

\* the pieces in the bins of one type
PiecesOfType(bs, type) ==
    LET OfType(b) == b.type = type
    IN  SumCounts(SelectSeq(bs, OfType))

\* C15: for a ZIP5 list in the order build emits the selection (ascending
\* ZIP5, empty ZIP5 last), the five_digit, three_digit and aadc counts of
\* estimate_postage are the summed counts of the 5digit, 3digit and aadc
\* bins that plan_bins_by_order returns for the list.
EstimateAgreesWithBins ==
    (planned /\ InBuildOrder(zips)) =>
        \E est \in { estimate_postage(zips) } :
            /\ est.five_digit = PiecesOfType(bins, "5digit")
            /\ est.three_digit = PiecesOfType(bins, "3digit")
            /\ est.aadc = PiecesOfType(bins, "aadc")

\* a sorted list with one 5-digit tray and leftovers of two ZIP5 that fill
\* a tray of their ZIP3
TrayAndZip3Tray ==
    /\ planned
    /\ InBuildOrder(zips)
    /\ Cardinality(Range(zips)) = 2
    /\ PiecesOfType(bins, "5digit") = TraySize
    /\ PiecesOfType(bins, "3digit") = TraySize


-----------------------------------------------------------------------------
(* ZIP5 resolution of one source row *)

Zip901 == <<"9", "5", "9", "0", "1">>
Zip102 == <<"9", "4", "1", "0", "2">>

\* what a cell of the row can hold: blank, digits that are no ZIP, the ZIP
\* given, the ZIP with a +4, the ZIP at the end of an address
CellTexts(z) ==
    { <<" ">>, <<"9", "5", "8", "3">>, z,
      z \o <<"-", "1", "2", "3", "4">>, <<"1", " ", "a", " ">> \o z }

\* a row with or without an owner ZIP, a mailing address, a generic ZIP and
\* a situs ZIP, each naming another ZIP5
ZipRows ==
    { << >> } \cup
    UNION { { ("Owner ZIP" :> m @@ "ZIP" :> g),
              ("Mailing Address" :> a @@ "SITUS ZIP" :> t),
              ("Owner ZIP" :> m @@ "SITUS ZIP" :> t),
              ("ZIP" :> g @@ "SITUS ZIP" :> t),
              ("Owner ZIP" :> m @@ "Mailing Address" :> a @@ "ZIP" :> g @@ "SITUS ZIP" :> t) } :
            m \in { <<" ">>, <<"9", "5", "8", "3">>, Zip835 },
            a \in CellTexts(Zip834) \ { Zip834 },
            g \in { <<" ">>, ZipText834, Zip630 },
            t \in CellTexts(Zip901) }

ZipAddrs == { NoText, AddrC, <<"c", " ">> \o Zip102 }

InitResolve ==
    /\ NoLedger
    /\ NoPick
    /\ NoPlan
    /\ NoFilter
    /\ NoBuild
    /\ zip_row \in ZipRows
    /\ zip_addr \in ZipAddrs
    /\ zip5 = NoZip
    /\ resolved = FALSE
    /\ NoRace
    /\ NoPipeline

\* process_rows resolves the ZIP5 of a row that read_csv_rows returned
\* (lines 98, 382)
ResolveZip ==
    /\ ~resolved
    /\ resolved' = TRUE
    /\ zip5' = get_zip5_from_row(read_csv_rows(<<zip_row>>)[1], zip_addr)
    /\ UNCHANGED <<zip_row, zip_addr, ledgerVars, pickVars, binVars, priorVars, buildVars, raceVars, pipeVars>>

NextResolve == ResolveZip

SpecResolve == InitResolve /\ [][NextResolve]_vars

\* the ZIP5 that the cell of column col yields, none for a row without it
ZipOfCell(col) ==
    IF col \in DOMAIN zip_row THEN get_zip5_from_text(zip_row[col]) ELSE NoZip

\* C16: the ZIP5 of a row is the ZIP of its mailing/owner ZIP column if that
\* yields one, else of its mailing address, else of its generic ZIP column,
\* else of its situs ZIP column, else of the property address, else empty;
\* so a row with a valid owner ZIP and another situs ZIP resolves to the
\* owner ZIP.
MailingZipFirst ==
    resolved =>
        /\ zip5 = IF ZipOfCell("Owner ZIP") # NoZip THEN ZipOfCell("Owner ZIP")
                  ELSE IF ZipOfCell("Mailing Address") # NoZip THEN ZipOfCell("Mailing Address")
                  ELSE IF ZipOfCell("ZIP") # NoZip THEN ZipOfCell("ZIP")
                  ELSE IF ZipOfCell("SITUS ZIP") # NoZip THEN ZipOfCell("SITUS ZIP")
                  ELSE get_zip5_from_text(zip_addr)
        /\ (ZipOfCell("Owner ZIP") = Zip835 /\ ZipOfCell("SITUS ZIP") = Zip901) => zip5 = Zip835

\* a row with owner ZIP 95835 and situs ZIP 95901 resolved to 95835
OwnerZipBeatsSitusZip ==
    /\ resolved
    /\ ZipOfCell("Owner ZIP") = Zip835
    /\ ZipOfCell("SITUS ZIP") = Zip901
    /\ zip5 = Zip835

-----------------------------------------------------------------------------
(* finalize_or_rebuild.py: two finalize runs at the same time              *)
(*                                                                         *)
(* One run of append_executed_and_update_tracker per campaign folder,      *)
(* started on the same root and split where it reads or writes a file:     *)
(* the executed log is read (lines 194-195) and written (line 247), the    *)
(* tracker is read (line 254) and written (line 311), then the tally is    *)
(* rebuilt (line 314).  What a run holds in memory between two steps is    *)
(* its own; the files are shared.  No step takes a lock or compares the    *)
(* file with what was read.                                                *)

\* a run that has not started: its mapping is read, nothing else
NewRun(mapping_rows) ==
    [pc |-> "read_log", mapping_rows |-> mapping_rows, existing_log |-> << >>,
     to_add |-> << >>, tracker_rows |-> EmptyMap]

InitRace ==
    /\ NoLedger
    /\ NoPick
    /\ NoPlan
    /\ NoFilter
    /\ NoBuild
    /\ NoResolve
    /\ finalizers \in [Campaigns -> { NewRun(m) : m \in Mappings }]
    /\ tracker_writes = << >>
    /\ NoPipeline

\* lines 186-233: an empty mapping ends the run; else the log is read and
\* the rows to append are computed
ReadLog(c) ==
    /\ finalizers[c].pc = "read_log"
    /\ finalizers' =
         [finalizers EXCEPT ![c] =
            IF finalizers[c].mapping_rows = << >> THEN [@ EXCEPT !.pc = "done"]
            ELSE [@ EXCEPT !.pc = "write_log",
                           !.existing_log = logs[c],
                           !.to_add = ToAdd(read_csv(logs[c]), finalizers[c].mapping_rows,
                                            c, FALSE, master[c], today)]]
    /\ UNCHANGED <<tracker_writes, ledgerVars, pickVars, binVars, priorVars, buildVars, zipVars, pipeVars>>

\* lines 241-249: the log is rewritten from the rows held in memory
WriteLog(c) ==
    /\ finalizers[c].pc = "write_log"
    /\ logs' = IF finalizers[c].to_add = << >> THEN logs
               ELSE [logs EXCEPT ![c] = LogWritten(finalizers[c].existing_log,
                                                   finalizers[c].to_add)]
    /\ finalizers' = [finalizers EXCEPT ![c].pc = "read_tracker"]
    /\ UNCHANGED <<tracker, tally, marker, master, today, rebuilt, lastRun, tracker_writes, pickVars, binVars, priorVars, buildVars, zipVars, pipeVars>>

\* lines 252-255: the whole tracker is read into idx
ReadTracker(c) ==
    /\ finalizers[c].pc = "read_tracker"
    /\ finalizers' = [finalizers EXCEPT ![c].pc = "write_tracker",
                                        ![c].tracker_rows = tracker]
    /\ UNCHANGED <<tracker_writes, ledgerVars, pickVars, binVars, priorVars, buildVars, zipVars, pipeVars>>

\* lines 257-311: idx is updated from to_add and written over the file
WriteTracker(c) ==
    /\ finalizers[c].pc = "write_tracker"
    /\ tracker' = UpdateTracker(finalizers[c].tracker_rows, finalizers[c].to_add, today)
    /\ tracker_writes' = Append(tracker_writes, c)
    /\ finalizers' = [finalizers EXCEPT ![c].pc = "tally"]
    /\ UNCHANGED <<logs, tally, marker, master, today, rebuilt, lastRun, pickVars, binVars, priorVars, buildVars, zipVars, pipeVars>>

\* line 314: the tally is rebuilt from the logs as they are now
WriteTally(c) ==
    /\ finalizers[c].pc = "tally"
    /\ tally' = rebuild_zip5_tally(logs)
    /\ finalizers' = [finalizers EXCEPT ![c].pc = "done"]
    /\ UNCHANGED <<logs, tracker, marker, master, today, rebuilt, lastRun, tracker_writes, pickVars, binVars, priorVars, buildVars, zipVars, pipeVars>>

NextRace ==
    \E c \in Campaigns :
        \/ ReadLog(c)
        \/ WriteLog(c)
        \/ ReadTracker(c)
        \/ WriteTracker(c)
        \/ WriteTally(c)

SpecRace == InitRace /\ [][NextRace]_vars

-----------------------------------------------------------------------------
(* Claims about concurrent finalize runs *)

BothRunsEnded ==
    /\ finalizers # << >>
    /\ \A c \in Campaigns : finalizers[c].pc = "done"

\* the record of key k in rows lists campaign c
ListsCampaign(rows, k, c) ==
    k \in DOMAIN rows /\ c \in Range(rows[k].CampaignNumbers)

\* the keys of the rows that the run of campaign c appended
KeysAdded(c) ==
    { norm_key(r.PropertyAddress, r.OwnerName) : r \in Range(finalizers[c].to_add) }

\* the log of campaign c holds one row per mapping row, in mapping order
LogHoldsMapping(c) ==
    /\ Len(logs[c]) = Len(finalizers[c].mapping_rows)
    /\ \A i \in DOMAIN logs[c] :
         /\ logs[c][i].CampaignNumber = c
         /\ norm_key(logs[c][i].PropertyAddress, logs[c][i].OwnerName)
              = norm_key(finalizers[c].mapping_rows[i].property_address,
                         finalizers[c].mapping_rows[i].owner)

LastWriter == tracker_writes[Len(tracker_writes)]

\* C20: when two finalize runs for different campaigns, started on an empty
\* root, have both ended, each executed log holds every row of its mapping;
\* and the tracker lacks the campaign number of a run for a key it logged
\* exactly when the other run wrote the tracker last from a tracker it had
\* read before that number was written.
LostOnlyToAStaleLastWriter ==
    BothRunsEnded =>
        /\ \A c \in Campaigns : LogHoldsMapping(c)
        /\ \A c \in Campaigns : \A k \in KeysAdded(c) :
             ~ListsCampaign(tracker, k, c)
                 <=> /\ LastWriter # c
                     /\ ~ListsCampaign(finalizers[LastWriter].tracker_rows, k, c)

\* both runs ended, both logs hold their rows, and the tracker lacks the
\* campaign number of one of them
LastWriterWon ==
    /\ BothRunsEnded
    /\ \A c \in Campaigns : LogHoldsMapping(c) /\ Len(logs[c]) > 0
    /\ \E c \in Campaigns : \E k \in KeysAdded(c) : ~ListsCampaign(tracker, k, c)

-----------------------------------------------------------------------------
(* Claims about what a finalize run leaves alone *)

\* the keys of the rows that the step appended to the executed logs
AppendedKeys ==
    UNION { { norm_key(logs'[c][i].PropertyAddress, logs'[c][i].OwnerName) :
                i \in (Len(logs[c]) + 1)..Len(logs'[c]) } : c \in Campaigns }

\* C22: as long as no rebuild-all has rewritten the ledger, a run keeps the
\* non-empty FirstSentDt and the non-empty ZIP5 of every record, sets
\* LastSentDt to the run date for the keys of the rows it appended, adds
\* records for those keys only and writes every other record back
\* unchanged.
DatesAndZipAreKept ==
    [][~rebuilt' =>
          /\ DOMAIN tracker' = DOMAIN tracker \cup AppendedKeys
          /\ \A k \in DOMAIN tracker :
               /\ tracker[k].FirstSentDt # 0 => tracker'[k].FirstSentDt = tracker[k].FirstSentDt
               /\ tracker[k].ZIP5 # "" => tracker'[k].ZIP5 = tracker[k].ZIP5
          /\ \A k \in AppendedKeys : tracker'[k].LastSentDt = today
          /\ \A k \in DOMAIN tracker \ AppendedKeys : tracker'[k] = tracker[k]]_vars

\* a record first sent on day 1, sent again on day 2 with another ZIP5 in
\* the newer log row, still holding the ZIP5 of day 1
SentAgainZipKept ==
    /\ ~rebuilt
    /\ \E k \in DOMAIN tracker : \E c \in Campaigns : \E i \in DOMAIN logs[c] :
         /\ tracker[k].FirstSentDt = 1
         /\ tracker[k].LastSentDt = 2
         /\ norm_key(logs[c][i].PropertyAddress, logs[c][i].OwnerName) = k
         /\ logs[c][i].ExecutedDt = 2
         /\ logs[c][i].ZIP5 # ""
         /\ logs[c][i].ZIP5 # tracker[k].ZIP5

\* C24: a finalize run with --dry-run leaves the executed logs, the ledger,
\* the ZIP5 tally and the markers as they were.
DryRunChangesNothing ==
    [][lastRun'.op = "dry_run" => UNCHANGED <<logs, tracker, tally, marker>>]_vars

\* C27: every row of every executed log has a ledger record under its dedup
\* key, and the CampaignNumbers of that record hold the campaign of the log.
LogRowsAreTracked ==
    \A c \in Campaigns : \A i \in DOMAIN logs[c] :
        ListsCampaign(tracker,
                      norm_key(logs[c][i].PropertyAddress, logs[c][i].OwnerName), c)

\* no executed log lg[c] holds two rows of one dedup key
NoKeyLoggedTwice(lg) ==
    \A c \in DOMAIN lg : \A i, j \in DOMAIN lg[c] :
        i < j => norm_key(lg[c][i].PropertyAddress, lg[c][i].OwnerName)
                   # norm_key(lg[c][j].PropertyAddress, lg[c][j].OwnerName)

\* C28: from executed logs that hold no (dedup key, campaign number) twice,
\* a finalize run without --force-recount, for any campaign and any mapping,
\* leaves logs that hold no (dedup key, campaign number) twice.
UnforcedRunLogsAKeyOnce ==
    NoKeyLoggedTwice(logs) =>
        \A c \in Campaigns, m \in Mappings :
            NoKeyLoggedTwice(append_executed_and_update_tracker(
                                 Files, c, m, FALSE, FALSE, FALSE, master[c], today).logs)

-----------------------------------------------------------------------------
(* Claims about the order in which the selection takes the ZIP5 groups *)

\* the positions of the selection that hold a candidate with ZIP5 z5
ChosenOf(z5) == { j \in DOMAIN chosen : chosen[j].ZIP5 = z5 }

\* whenever a candidate of group g is chosen, every candidate with ZIP5 z5
\* is chosen, and at an earlier position
ExhaustedBefore(z5, g) ==
    \E pz \in { ChosenOf(z5) }, pg \in { ChosenOf(g) } :
        pg # {} =>
            /\ { chosen[j] : j \in pz }
                 = { candidates[x] : x \in { y \in DOMAIN candidates : candidates[y].ZIP5 = z5 } }
            /\ \A j \in pz : \A i \in pg : j < i

\* the ZIP5 values of the candidates
ZipGroups == { candidates[x].ZIP5 : x \in DOMAIN candidates }

\* C23 as stated: in non-strict mode no candidate without ZIP5 is chosen
\* before every group with a ZIP5 is exhausted.
EmptyZipGroupComesLast ==
    (picked /\ ~strict_150) =>
        \A z5 \in ZipGroups \ {NoZip} : ExhaustedBefore(z5, NoZip)

\* C23: in non-strict mode a candidate is chosen only after every larger
\* ZIP5 group is exhausted, and a candidate without ZIP5 only after every
\* group with a ZIP5 that is as large as the group without.
GroupsTakenBySize ==
    (picked /\ ~strict_150) =>
        \A z5, g \in ZipGroups :
            (\/ GroupSize(z5) > GroupSize(g)
             \/ GroupSize(z5) = GroupSize(g) /\ z5 # NoZip /\ g = NoZip)
                => ExhaustedBefore(z5, g)

\* the larger group, without ZIP5, filled the selection and the smaller
\* group with a ZIP5 was left out
LargerEmptyGroupChosenFirst ==
    /\ picked
    /\ ~strict_150
    /\ \E i \in DOMAIN chosen : chosen[i].ZIP5 = NoZip
    /\ \E z5 \in ZipGroups \ {NoZip} :
         /\ GroupSize(z5) < GroupSize(NoZip)
         /\ \A i \in DOMAIN chosen : chosen[i].ZIP5 # z5

\* C26: for every candidate list, every target and both modes, the
\* selection has min(max(target, 0), number of candidates) members.
SelectionNeverUnderfills ==
    picked => Len(chosen) = Min(Max(target, 0), Len(candidates))

\* a strict selection below its target that holds every candidate: whole
\* trays from the first pass, the others from the later passes
EveryCandidateTakenBelowTarget ==
    /\ picked
    /\ strict_150
    /\ Len(candidates) < target
    /\ Len(chosen) = Len(candidates)
    /\ first_pass # << >>
    /\ Len(first_pass) < Len(chosen)

-----------------------------------------------------------------------------
(* Claims about the mandatory lists in the selection *)

\* the candidates that the mandatory lists contributed: they are read
\* first, so they are the first stats["MAND"]["kept"] of all_candidates
MandatoryCandidates ==
    { all_candidates[i] : i \in 1..stats["MAND"].kept }

\* C25: once a build run has made its selection, every candidate that came
\* from a mandatory list is in it.
MandatoryCandidatesAllSelected ==
    phase \in {"selected", "done"} => MandatoryCandidates \subseteq Range(chosen)

-----------------------------------------------------------------------------
(* Claims about the envelope pages *)

\* the input row indexes in the order their envelopes are drawn
RowsDrawn ==
    LET IsEnvelope(pg) == pg.kind = "envelope"
        sel == SelectSeq(pages, IsEnvelope)
    IN  [x \in DOMAIN sel |-> sel[x].n]

\* C29: for every input sorted ascending by ZIP5, the envelopes are drawn
\* for the rows 1..N, each once and in input order, and every envelope comes
\* after the separator of a bin whose span holds its row.
EveryRowDrawnOnceInOrder ==
    (drawn /\ InBuildOrder(zips)) =>
        /\ RowsDrawn = [x \in 1..Len(zips) |-> x]
        /\ \A p \in DOMAIN pages :
             pages[p].kind = "envelope" =>
                 \E q \in 1..(p - 1) : \E b \in DOMAIN bins :
                     /\ pages[q] = SeparatorPage(bins[b])
                     /\ bins[b].start <= pages[p].n
                     /\ pages[p].n <= bins[b].end

-----------------------------------------------------------------------------
(* generate_letters.py: the owner and the address of a letter *)

Uppers ==
    <<"A", "B", "C", "D", "E", "F", "G", "H", "I", "J", "K", "L", "M",
      "N", "O", "P", "Q", "R", "S", "T", "U", "V", "W", "X", "Y", "Z">>

Lowers ==
    <<"a", "b", "c", "d", "e", "f", "g", "h", "i", "j", "k", "l", "m",
      "n", "o", "p", "q", "r", "s", "t", "u", "v", "w", "x", "y", "z">>

IsUpper(ch) == \E i \in DOMAIN Uppers : Uppers[i] = ch

IsLower(ch) == \E i \in DOMAIN Lowers : Lowers[i] = ch

\* str.lower() and str.upper() of one character
LowerChar(ch) ==
    IF IsUpper(ch) THEN Lowers[CHOOSE i \in DOMAIN Uppers : Uppers[i] = ch] ELSE ch

UpperLetter(ch) ==
    IF IsLower(ch) THEN Uppers[CHOOSE i \in DOMAIN Lowers : Lowers[i] = ch] ELSE ch

lower(s) == [i \in 1..Len(s) |-> LowerChar(s[i])]

\* the characters of a column name
Spelling(col) ==
    CASE col = "PropertyAddress" -> <<"P", "r", "o", "p", "e", "r", "t", "y", "A", "d", "d", "r", "e", "s", "s">>
      [] col = "OwnerName" -> <<"O", "w", "n", "e", "r", "N", "a", "m", "e">>
      [] col = "Mail ZIP" -> <<"M", "a", "i", "l", " ", "Z", "I", "P">>
      [] col = "Address" -> <<"A", "d", "d", "r", "e", "s", "s">>
      [] col = "Primary First" -> <<"P", "r", "i", "m", "a", "r", "y", " ", "F", "i", "r", "s", "t">>
      [] col = "Primary Last" -> <<"P", "r", "i", "m", "a", "r", "y", " ", "L", "a", "s", "t">>
      [] col = "Primary Name" -> <<"P", "r", "i", "m", "a", "r", "y", " ", "N", "a", "m", "e">>

\* POSSIBLE_OWNER_NAME (lines 106-109)
POSSIBLE_OWNER_NAME ==
    <<<<"p", "r", "i", "m", "a", "r", "y", " ", "n", "a", "m", "e">>,
      <<"p", "r", "i", "m", "a", "r", "y", "_", "n", "a", "m", "e">>,
      <<"o", "w", "n", "e", "r", " ", "n", "a", "m", "e">>,
      <<"o", "w", "n", "e", "r">>,
      <<"n", "a", "m", "e">>,
      <<"o", "w", "n", "e", "r", "_", "f", "u", "l", "l", "_", "n", "a", "m", "e">>,
      <<"o", "w", "n", "e", "r", " ", "f", "u", "l", "l", " ", "n", "a", "m", "e">>,
      <<"o", "w", "n", "e", "r", "(", "s", ")">>,
      <<"o", "w", "n", "e", "r", " ", "1">>,
      <<"o", "w", "n", "e", "r", "1">>>>

\* POSSIBLE_ADDRESS (lines 110-113)
POSSIBLE_ADDRESS ==
    <<<<"s", "i", "t", "u", "s", " ", "a", "d", "d", "r", "e", "s", "s">>,
      <<"m", "a", "i", "l", "i", "n", "g", " ", "a", "d", "d", "r", "e", "s", "s">>,
      <<"p", "r", "o", "p", "e", "r", "t", "y", " ", "a", "d", "d", "r", "e", "s", "s">>,
      <<"s", "i", "t", "e", " ", "a", "d", "d", "r", "e", "s", "s">>,
      <<"a", "d", "d", "r", "e", "s", "s">>,
      <<"s", "i", "t", "u", "s", "a", "d", "d", "r">>,
      <<"s", "i", "t", "u", "s">>,
      <<"s", "i", "t", "u", "s", "a", "d", "d", "r", "e", "s", "s">>,
      <<"p", "r", "o", "p", "e", "r", "t", "y", " ", "s", "i", "t", "u", "s">>,
      <<"p", "r", "o", "p", " ", "a", "d", "d", "r", "e", "s", "s">>,
      <<"s", "i", "t", "u", "s", "_", "a", "d", "d", "r", "e", "s", "s">>>>

\* the literal alternatives of LLC_TOKENS (line 134) behind ET\s+AL
LLC_TOKENS ==
    <<<<"T", "R", "U", "S", "T">>,
      <<"L", "L", "C">>,
      <<"I", "N", "C">>,
      <<"C", "O">>,
      <<"L", "P">>,
      <<"L", ".", "P", ".">>,
      <<"L", "T", "D">>>>

IsLowerAlnum(ch) == IsDigit(ch) \/ IsLower(ch)

\* re.sub(r"[^a-z0-9]+", " ", s): every run of other characters becomes
\* one blank
RECURSIVE blank_runs(_)
blank_runs(s) ==
    IF s = << >> THEN << >>
    ELSE IF IsLowerAlnum(Head(s)) THEN <<Head(s)>> \o blank_runs(Tail(s))
    ELSE IF Len(s) >= 2 /\ ~IsLowerAlnum(s[2]) THEN blank_runs(Tail(s))
    ELSE <<" ">> \o blank_runs(Tail(s))

\* _norm (lines 115-116)
norm_name(s) == blank_runs(lower(strip(s)))

\* nc in n
Contains(nc, n) ==
    \E i \in 1..(Len(n) - Len(nc) + 1) : SubSeq(n, i, i + Len(nc) - 1) = nc

\* find_column returns None
NoColumn == ""

\* the first header whose normalised name is (exact) or holds the
\* normalised candidate
HeaderFor(headers, nc, exact) ==
    LET Hit(h) == IF exact THEN norm_name(Spelling(h)) = nc
                  ELSE Contains(nc, norm_name(Spelling(h)))
    IN  IF \E i \in DOMAIN headers : Hit(headers[i])
        THEN headers[CHOOSE i \in DOMAIN headers :
                        Hit(headers[i]) /\ \A j \in 1..(i - 1) : ~Hit(headers[j])]
        ELSE NoColumn

\* one loop of find_column over the candidates (lines 121-125, 127-131)
RECURSIVE FirstCandidate(_, _, _)
FirstCandidate(headers, cands, exact) ==
    IF cands = << >> THEN NoColumn
    ELSE IF HeaderFor(headers, norm_name(Head(cands)), exact) # NoColumn
    THEN HeaderFor(headers, norm_name(Head(cands)), exact)
    ELSE FirstCandidate(headers, Tail(cands), exact)

\* find_column (lines 118-132): an exact match of any candidate goes before
\* a header that contains one
find_column(headers, cands) ==
    IF FirstCandidate(headers, cands, TRUE) # NoColumn
    THEN FirstCandidate(headers, cands, TRUE)
    ELSE FirstCandidate(headers, cands, FALSE)

\* \w of the regular expressions
IsWordChar(ch) == IsDigit(ch) \/ IsLower(ch) \/ IsUpper(ch) \/ ch = "_"

WordAt(s, i) == i \in DOMAIN s /\ IsWordChar(s[i])

\* \b in front of s[i]
Boundary(s, i) == WordAt(s, i - 1) # WordAt(s, i)

\* t at s[i..] whatever the case (flags=re.I): the place of its last
\* character, 0 if it is not there
LiteralEnd(s, i, t) ==
    IF /\ i + Len(t) - 1 <= Len(s)
       /\ lower(SubSeq(s, i, i + Len(t) - 1)) = lower(t)
    THEN i + Len(t) - 1
    ELSE 0

\* the end of the blanks that start at s[i]: i - 1 if s[i] is no blank
RECURSIVE BlanksEnd(_, _)
BlanksEnd(s, i) ==
    IF i <= Len(s) /\ IsSpace(s[i]) THEN BlanksEnd(s, i + 1) ELSE i - 1

\* ET\s+AL at s[i..]
EtAlEnd(s, i) ==
    IF /\ LiteralEnd(s, i, <<"E", "T">>) # 0
       /\ BlanksEnd(s, i + 2) >= i + 2
    THEN LiteralEnd(s, BlanksEnd(s, i + 2) + 1, <<"A", "L">>)
    ELSE 0

\* the alternatives of LLC_TOKENS in their order, each with \b behind it
RECURSIVE TokenEnd(_, _, _)
TokenEnd(s, i, tokens) ==
    IF tokens = << >> THEN 0
    ELSE IF /\ LiteralEnd(s, i, Head(tokens)) # 0
            /\ Boundary(s, LiteralEnd(s, i, Head(tokens)) + 1)
    THEN LiteralEnd(s, i, Head(tokens))
    ELSE TokenEnd(s, i, Tail(tokens))

\* \b(LLC_TOKENS)\b\.?,? at s[i..] (line 136): the place of the last
\* character matched, 0 without a match
EntityEnd(s, i) ==
    LET e1 == IF EtAlEnd(s, i) # 0 /\ Boundary(s, EtAlEnd(s, i) + 1)
              THEN EtAlEnd(s, i)
              ELSE TokenEnd(s, i, LLC_TOKENS)
        e2 == IF e1 + 1 <= Len(s) /\ s[e1 + 1] = "." THEN e1 + 1 ELSE e1
        e3 == IF e2 + 1 <= Len(s) /\ s[e2 + 1] = "," THEN e2 + 1 ELSE e2
    IN  IF ~Boundary(s, i) \/ e1 = 0 THEN 0 ELSE e3

\* re.sub(..., "", name) from s[i] on
RECURSIVE drop_entities(_, _)
drop_entities(s, i) ==
    IF i > Len(s) THEN << >>
    ELSE IF EntityEnd(s, i) # 0 THEN drop_entities(s, EntityEnd(s, i) + 1)
    ELSE <<s[i]>> \o drop_entities(s, i + 1)

\* clean_entity_tokens (lines 135-136)
clean_entity_tokens(name) == strip(drop_entities(name, 1))

\* w.capitalize() for every word of a text whose words one blank separates
capitalize_words(s) ==
    [i \in 1..Len(s) |-> IF i = 1 \/ IsSpace(s[i - 1]) THEN UpperLetter(s[i]) ELSE s[i]]

\* to_title_case (lines 138-147); an ordinal such as 1st is left as
\* capitalize() leaves it
to_title_case(s) == capitalize_words(norm_space(lower(s)))

\* _first_nonempty_from_row (lines 199-203)
first_nonempty_from_row(row, keys) == FirstFilled(row, keys)

\* is_trust_case (lines 205-220)
is_trust_case(row) ==
    /\ first_nonempty_from_row(row, <<"Primary First", "PRIMARY FIRST", "primary first",
                                      "primary_first", "primary first name",
                                      "primary_first_name">>) = NoText
    /\ first_nonempty_from_row(row, <<"Primary Last", "PRIMARY LAST", "primary last",
                                      "primary_last", "primary last name",
                                      "primary_last_name">>) = NoText
    /\ first_nonempty_from_row(row, <<"Secondary Name", "SECONDARY NAME",
                                      "secondary name", "secondary_name">>) = NoText
    /\ first_nonempty_from_row(row, <<"Secondary First", "SECONDARY FIRST",
                                      "secondary first", "secondary_first">>) = NoText
    /\ first_nonempty_from_row(row, <<"Secondary Last", "SECONDARY LAST",
                                      "secondary last", "secondary_last">>) = NoText
    /\ first_nonempty_from_row(row, <<"Primary Name", "PRIMARY NAME", "primary name",
                                      "primary_name">>) # NoText

\* personalize_letter (lines 222-278) as far as the mapping file goes: the
\* owner and the address it returns for a row of headers `headers`
personalize_letter(row, headers) ==
    LET col_name == find_column(headers, POSSIBLE_OWNER_NAME)
        col_addr == find_column(headers, POSSIBLE_ADDRESS)
        primary_name == first_nonempty_from_row(row, <<"Primary Name", "PRIMARY NAME",
                                                       "primary name", "primary_name">>)
        owner_full_raw == IF is_trust_case(row) THEN primary_name
                          ELSE MapGet(row, col_name, NoText)
        owner_display == IF is_trust_case(row) THEN to_title_case(primary_name)
                         ELSE to_title_case(clean_entity_tokens(owner_full_raw))
    IN  [owner   |-> IF owner_display # NoText THEN owner_display ELSE owner_full_raw,
         address |-> strip(MapGet(row, col_addr, NoText))]

\* the ZIP5 of a letter (generate_letters.py, lines 290-320): the ZIP
\* columns in the order of get_zip5_from_row, then the address columns
letters_address_columns ==
    <<"property_address", "Property Address", "PROPERTY ADDRESS", "Address", "ADDRESS",
      "Situs Address", "SITUS ADDRESS", "PropertyAddress", "SITUS">>

get_zip_from_row_generic(r) == FirstZip(r, zip_columns \o letters_address_columns)

\* a ZIP5 as the ledger files hold it
ZipString(z) ==
    CASE z = NoZip -> ""
      [] z = Zip630 -> "95630"
      [] z = Zip834 -> "95834"
      [] z = Zip835 -> "95835"

\* generate_ref_code (lines 96-98) draws L10000..L99999; two of them
RefCodes == { "r1", "r2" }

\* --template-id of the letters run
LetterTemplate == "t1"

\* the mapping rows of the letters run (lines 673-710) for the rows of the
\* input file; refs are the ref codes drawn
map_rows(file, refs) ==
    [i \in 1..Len(file.rows) |->
        CHOOSE m \in { MapRow(p.address, p.owner, refs[i], LetterTemplate,
                              ZipString(get_zip_from_row_generic(file.rows[i]))) :
                         p \in { personalize_letter(file.rows[i], file.headers) } } : TRUE]

-----------------------------------------------------------------------------
(* BuildMasterCampaignList_v4_MAILZIPFirst.py: campaign_master.csv *)

addr_like ==
    <<"Address", "ADDRESS", "Property Address", "PROPERTY ADDRESS", "Situs Address",
      "SITUS ADDRESS", "Mailing Address", "MAILING ADDRESS">>

owner_like ==
    <<"Primary Name", "PRIMARY NAME", "OwnerName", "OWNER NAME", "OWNER", "OWNER(S)">>

\* the header of the first file that has one (lines 460-484); files are
\* args.mandatory + args.optional
RECURSIVE first_headers(_)
first_headers(files) ==
    IF files = << >> THEN << >>
    ELSE IF Head(files).headers # << >> THEN Head(files).headers
    ELSE first_headers(Tail(files))

RECURSIVE AllSourceRows(_)
AllSourceRows(files) ==
    IF files = << >> THEN << >>
    ELSE read_csv_rows(Head(files).rows) \o AllSourceRows(Tail(files))

\* the key of a source row in the index, << >> for a row without address
\* or owner (lines 498-503)
IndexKey(r) ==
    CHOOSE k \in { IF d.addr = NoText \/ d.own = NoText THEN << >>
                   ELSE norm_key(d.addr, d.own) :
                     d \in { detect_addr_owner_from_source_row(r) } } : TRUE

\* index.get(k) or sel.get("_src_row", {}) (lines 491-505, 513): the first
\* source row of key k
source_row(rows, sel) ==
    LET k == norm_key(sel.PropertyAddress, sel.OwnerName)
    IN  IF \E i \in DOMAIN rows : IndexKey(rows[i]) = k
        THEN rows[CHOOSE i \in DOMAIN rows :
                     IndexKey(rows[i]) = k /\ \A j \in 1..(i - 1) : IndexKey(rows[j]) # k]
        ELSE sel.src_row

\* the cells of the columns listed in cols that are blank filled with text
\* (lines 534-539)
fill_blank(row, cols, text) ==
    [c \in DOMAIN row |->
        IF c \in Range(cols) /\ strip(row[c]) = NoText THEN text ELSE row[c]]

\* a row of the master under the template header (lines 508-539)
new_row(sel, rows, headers) ==
    LET src == source_row(rows, sel)
        copied == [col \in Range(headers) |->
                      IF col \in DOMAIN src THEN src[col]
                      ELSE IF col = "PropertyAddress" THEN sel.PropertyAddress
                      ELSE IF col = "OwnerName" THEN sel.OwnerName
                      ELSE IF col = "ZIP5" THEN sel.ZIP5
                      ELSE NoText]
    IN  fill_blank(fill_blank(copied, addr_like, sel.PropertyAddress),
                   owner_like, sel.OwnerName)

\* campaign_master.csv (lines 459-543): header and rows
write_master(sel_rows, files) ==
    IF first_headers(files) = << >>
    THEN [headers |-> <<"Address", "Primary Name">>,
          rows |-> [i \in 1..Len(sel_rows) |->
                      ("Address" :> sel_rows[i].PropertyAddress
                       @@ "Primary Name" :> sel_rows[i].OwnerName)]]
    ELSE CHOOSE f \in { [headers |-> first_headers(files),
                         rows |-> [i \in 1..Len(sel_rows) |->
                                     new_row(sel_rows[i], rows, first_headers(files))]] :
                          rows \in { AllSourceRows(files) } } : TRUE

\* the loop over args.mandatory (lines 394-398)
RECURSIVE read_mandatory(_, _, _, _)
read_mandatory(st, files, trk, pol) ==
    IF files = << >> THEN st
    ELSE CHOOSE x \in { read_mandatory(s1, Tail(files), trk, pol) :
                          s1 \in { process_rows(st, read_csv_rows(Head(files).rows),
                                                "MAND", trk, pol) } } : TRUE

\* main() (lines 341-543) for a command line of mandatory files alone: the
\* exit status, the selection and campaign_master.csv
build_main(files, pol, tgt, strict, sd, trk) ==
    LET Run(st) ==
            IF st.stats["MAND"].kept > tgt
            THEN [exit_code |-> 1, chosen |-> << >>,
                  campaign_master |-> [headers |-> << >>, rows |-> << >>]]
            ELSE CHOOSE r \in { [exit_code |-> 0, chosen |-> ch,
                                 campaign_master |-> write_master(ch, files)] :
                                  ch \in { sort_chosen(pick_optimized(st.all_candidates,
                                                                      tgt, strict, sd)) } } : TRUE
    IN  CHOOSE r \in { Run(st) :
                         st \in { read_mandatory([seen_keys |-> {}, all_candidates |-> << >>,
                                                  stats |-> NoStats],
                                                 files, trk, pol) } } : TRUE

-----------------------------------------------------------------------------
(* finalize_or_rebuild.py: the ZIP index of campaign_master.csv *)

\* _zip_from_text (lines 89-92)
zip_from_text(txt) ==
    LET s == strip(txt)
    IN  IF \E i \in DOMAIN s : ZipMatchAt(s, i)
        THEN LET m == CHOOSE i \in DOMAIN s :
                          ZipMatchAt(s, i) /\ \A j \in 1..(i - 1) : ~ZipMatchAt(s, j)
             IN  SubSeq(s, m, m + 4)
        ELSE NoZip

RECURSIVE first_zip(_, _)
first_zip(row, cols) ==
    IF cols = << >> THEN NoZip
    ELSE IF /\ Head(cols) \in DOMAIN row
            /\ strip(row[Head(cols)]) # NoText
            /\ zip_from_text(row[Head(cols)]) # NoZip
    THEN zip_from_text(row[Head(cols)])
    ELSE first_zip(row, Tail(cols))

\* get_zip_from_row (lines 131-139) over get_zip_from_row_generic (lines
\* 94-121)
get_zip_from_row(r) ==
    first_zip(r, zip_columns
                 \o <<"property_address", "Property Address", "PROPERTY ADDRESS", "Address",
                      "ADDRESS", "Situs Address", "SITUS ADDRESS">>
                 \o <<"Property Address", "PROPERTY ADDRESS", "Address", "ADDRESS",
                      "Situs Address", "SITUS ADDRESS", "PropertyAddress", "SITUS">>)

\* get_addr (lines 141-145)
get_addr(r) ==
    FirstFilled(r, <<"Property Address", "PROPERTY ADDRESS", "Address", "ADDRESS",
                     "Situs Address", "SITUS ADDRESS", "PropertyAddress", "SITUS">>)

\* get_owner (lines 147-157)
get_owner(r) ==
    LET named == FirstFilled(r, <<"Primary Name", "PRIMARY NAME", "OwnerName",
                                  "OWNER NAME", "Owner", "OWNER">>)
        f == FirstFilled(r, <<"Primary First", "PRIMARY FIRST", "Owner First",
                              "OWNER FIRST", "First Name", "FIRST NAME">>)
        l == FirstFilled(r, <<"Primary Last", "PRIMARY LAST", "Owner Last",
                              "OWNER LAST", "Last Name", "LAST NAME">>)
    IN  IF named # NoText THEN named ELSE strip(f \o <<" ">> \o l)

\* build_zip_index_from_master (lines 123-165): a later row of a key
\* replaces an earlier one
RECURSIVE zip_index(_, _)
zip_index(rows, idx) ==
    IF rows = << >> THEN idx
    ELSE LET r == Head(rows)
             k == norm_key(get_addr(r), get_owner(r))
         IN  IF get_addr(r) # NoText /\ get_owner(r) # NoText /\ get_zip_from_row(r) # NoZip
             THEN zip_index(Tail(rows),
                            [x \in DOMAIN idx \cup {k} |->
                                IF x = k THEN ZipString(get_zip_from_row(r)) ELSE idx[x]])
             ELSE zip_index(Tail(rows), idx)

build_zip_index_from_master(file) == zip_index(read_csv_rows(file.rows), EmptyMap)

-----------------------------------------------------------------------------
(* The pipeline: build, letters, finalize, and the build of the next
   campaign *)

MaxPipelineRows == 2

OwnerXCo == <<"x", " ", "c", "o">>

\* a source file of the given header, a row for every tuple of cells
SourceList(headers, cells) ==
    [headers |-> headers,
     rows |-> [i \in 1..Len(cells) |->
                 [c \in Range(headers) |->
                     cells[i][CHOOSE j \in DOMAIN headers : headers[j] = c]]]]

\* the rows of three exports: address and owner name with the mailing ZIP,
\* first and last name apart, and the full name in Primary Name
NamedCells == { <<AddrAB, OwnerX, Zip835>>, <<AddrAB2, OwnerX2, NoText>>,
                <<AddrC, OwnerX, NoText>>, <<AddrC, OwnerXCo, Zip835>> }

FirstLastCells == { <<AddrAB, <<" ">> \o OwnerX, NoText>>, <<AddrC, OwnerX, <<"b">>>> }

PrimaryCells == { <<AddrAB, OwnerX>>, <<AddrC, OwnerXCo>> }

SeqsUpTo(S, n) == UNION { [1..k -> S] : k \in 0..n }

\* the source files: a file without header line, and files of 0..n rows
PipelineFiles(n) ==
    { [headers |-> << >>, rows |-> << >>] }
    \cup { SourceList(<<"PropertyAddress", "OwnerName", "Mail ZIP">>, cells) :
             cells \in SeqsUpTo(NamedCells, n) }
    \cup { SourceList(<<"Address", "Primary First", "Primary Last">>, cells) :
             cells \in SeqsUpTo(FirstLastCells, n) }
    \cup { SourceList(<<"Address", "Primary Name">>, cells) :
             cells \in SeqsUpTo(PrimaryCells, n) }

\* --mandatory: one file, or two files of MaxPipelineRows rows together
PipelineLists ==
    { <<f>> : f \in PipelineFiles(MaxPipelineRows) }
    \cup { fg \in { <<f, g>> : f \in PipelineFiles(MaxPipelineRows),
                                 g \in PipelineFiles(MaxPipelineRows) } :
               Len(fg[1].rows) + Len(fg[2].rows) <= MaxPipelineRows }

\* the campaign of the pipeline; the next campaign is built with
\* --prior-exact 0
PipelineCampaign == 1

FirstPolicy ==
    [prior_exact |-> NoneInt, prior_max |-> NoneInt, min_gap |-> 0,
     campaign_number |-> PipelineCampaign]

NextPolicy ==
    [prior_exact |-> <<0>>, prior_max |-> NoneInt, min_gap |-> 0,
     campaign_number |-> PipelineCampaign + 1]

\* an empty root folder and the source files of the campaign
InitPipeline ==
    /\ logs = [c \in Campaigns |-> << >>]
    /\ tracker = EmptyMap
    /\ tally = EmptyMap
    /\ marker = [c \in Campaigns |-> FALSE]
    /\ master = [c \in Campaigns |-> EmptyMap]
    /\ today = 1
    /\ rebuilt = FALSE
    /\ lastRun = [op |-> "none", c |-> 0, added |-> 0]
    /\ NoPick
    /\ NoPlan
    /\ NoFilter
    /\ NoBuild
    /\ NoResolve
    /\ NoRace
    /\ stage = "start"
    /\ source_lists \in PipelineLists
    /\ selection = << >>
    /\ campaign_master = [headers |-> << >>, rows |-> << >>]
    /\ letters_mapping = << >>
    /\ next_selection = << >>

\* BuildMasterCampaignList_v4_MAILZIPFirst.py for the campaign, with
\* --target-size tgt
BuildCampaign(tgt, strict, sd) ==
    /\ stage = "start"
    /\ \E r \in { build_main(source_lists, FirstPolicy, tgt, strict, sd,
                             read_tracker(TrackerFile(tracker))) } :
           IF r.exit_code = 1
           THEN /\ stage' = "failed"
                /\ UNCHANGED <<selection, campaign_master, master>>
           ELSE /\ stage' = "built"
                /\ selection' = r.chosen
                /\ campaign_master' = r.campaign_master
                /\ master' = [master EXCEPT ![PipelineCampaign] =
                                build_zip_index_from_master(r.campaign_master)]
    /\ UNCHANGED <<logs, tracker, tally, marker, today, rebuilt, lastRun, source_lists,
                   letters_mapping, next_selection,
                   pickVars, binVars, priorVars, buildVars, zipVars, raceVars>>

\* generate_letters.py --csv campaign_master.csv with the mapping written
\* where finalize looks for it, refs being the ref codes drawn; a master
\* without rows ends the run before the mapping is written (lines 636-638)
GenerateLetters ==
    /\ stage = "built"
    /\ stage' = "lettered"
    /\ \E refs \in [1..Len(campaign_master.rows) -> RefCodes] :
           letters_mapping' = map_rows(campaign_master, refs)
    /\ UNCHANGED <<source_lists, selection, campaign_master, next_selection, ledgerVars,
                   pickVars, binVars, priorVars, buildVars, zipVars, raceVars>>

\* read_csv of the mapping file (finalize_or_rebuild.py, lines 38-41, 186)
read_mapping(rows) ==
    [i \in 1..Len(rows) |->
        [rows[i] EXCEPT !.owner = strip(@), !.property_address = strip(@)]]

\* finalize_or_rebuild.py --campaign-dir of the campaign
FinalizeCampaign(write_marker) ==
    /\ stage = "lettered"
    /\ stage' = "finalized"
    /\ \E st \in { append_executed_and_update_tracker(
                       Files, PipelineCampaign, read_mapping(letters_mapping), FALSE,
                       FALSE, write_marker, master[PipelineCampaign], today) } :
           /\ logs' = st.logs
           /\ tracker' = st.tracker
           /\ tally' = st.tally
           /\ marker' = st.marker
           /\ lastRun' = [op |-> IF letters_mapping = << >> THEN "no_rows" ELSE "finalize",
                          c |-> PipelineCampaign,
                          added |-> Len(st.logs[PipelineCampaign]) - Len(logs[PipelineCampaign])]
    /\ UNCHANGED <<master, today, rebuilt, source_lists, selection, campaign_master,
                   letters_mapping, next_selection,
                   pickVars, binVars, priorVars, buildVars, zipVars, raceVars>>

\* the build of the next campaign from the same files with --prior-exact 0
BuildNextCampaign(tgt, strict, sd) ==
    /\ stage = "finalized"
    /\ \E r \in { build_main(source_lists, NextPolicy, tgt, strict, sd,
                             read_tracker(TrackerFile(tracker))) } :
           IF r.exit_code = 1
           THEN /\ stage' = "next_failed"
                /\ UNCHANGED <<next_selection, master>>
           ELSE /\ stage' = "next_built"
                /\ next_selection' = r.chosen
                /\ master' = [master EXCEPT ![PipelineCampaign + 1] =
                                build_zip_index_from_master(r.campaign_master)]
    /\ UNCHANGED <<logs, tracker, tally, marker, today, rebuilt, lastRun, source_lists,
                   selection, campaign_master, letters_mapping,
                   pickVars, binVars, priorVars, buildVars, zipVars, raceVars>>

NextPipeline ==
    \/ \E tgt \in { 1, MaxPipelineRows }, strict \in BOOLEAN, sd \in Seeds :
           BuildCampaign(tgt, strict, sd)
    \/ GenerateLetters
    \/ \E write_marker \in BOOLEAN : FinalizeCampaign(write_marker)
    \/ \E tgt \in { 1, MaxPipelineRows }, strict \in BOOLEAN, sd \in Seeds :
           BuildNextCampaign(tgt, strict, sd)

SpecPipeline == InitPipeline /\ [][NextPipeline]_vars

-----------------------------------------------------------------------------
(* Claims about the dedup key along the pipeline *)

SelectionKeys(rows) ==
    { norm_key(rows[i].PropertyAddress, rows[i].OwnerName) : i \in DOMAIN rows }

\* C21: after build, letters and finalize of a campaign, every lead of the
\* campaign's selection has a tracker record under the key
\* norm_key(address, owner) that build computed for it, listing the
\* campaign; and the build of the next campaign with --prior-exact 0
\* selects none of these leads.
MailedLeadsAreKnownToTheNextBuild ==
    /\ stage \in { "finalized", "next_built", "next_failed" } =>
           \A k \in SelectionKeys(selection) : ListsCampaign(tracker, k, PipelineCampaign)
    /\ stage = "next_built" =>
           SelectionKeys(selection) \cap SelectionKeys(next_selection) = {}

====
